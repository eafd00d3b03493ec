\* Two clients send seven lines in all, in any order.
CONSTANTS
  Descriptors = {1, 2}
  Languages <- MCLanguages
  DefaultModule <- MCDefaultModule
  Modules = {"first", "second"}
  LineBytes = {2, 3}
  SectionVoice = "male2"
  MaxLines = 7
  MaxQueued = 2
SPECIFICATION Spec
INVARIANT TextOwn
INVARIANT VoiceUnmixed
PROPERTY RightAnswer
CHECK_DEADLOCK FALSE
