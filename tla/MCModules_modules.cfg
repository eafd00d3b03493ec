SPECIFICATION FairSpec
CONSTANTS
  Kinds = {"generic", "dummy", "cicero", "espeak", "ibmtts", "baratinoo", "festival", "flite", "kali", "ivona", "pico", "openjtalk", "cxxpiper"}
  MaxSpoken = 3
  MaxParts = 3
 
PROPERTY SpokenWhole
PROPERTY StopCuts
PROPERTY AllEnd
CHECK_DEADLOCK FALSE
