----------------------------- MODULE ModuleLoad -----------------------------
(***************************************************************************)
(* Which output modules the server loads, in which order, and which of     *)
(* them it uses for a message: src/src/server/module.c, output.c and       *)
(* speechd_load_configuration() in speechd.c.                              *)
(*                                                                         *)
(* A request names a module, its program and its configuration file.  A    *)
(* file of a directory is a record of what it is and the request it makes. *)
(* A loaded module is a record with its name and whether it works.         *)
(***************************************************************************)
EXTENDS Naturals, Sequences, SequencesExt

CONSTANTS
  Requests,    \* the modules that anyone may ask for: [name, program, config]
  Directories, \* the files of the directories that are searched for modules
  Variants,    \* the files of the user's and of the system's configuration directory
  Dependencies, \* the commands and ports that variants of generic depend on
  Present,     \* those of them that are there
  Preference   \* all names, in the order of modules_compare()

NoName   == "no name"
Fallback == [name |-> "espeak-ng-fallback", program |-> "sd_espeak-ng", config |-> ""]
Dummy    == [name |-> "dummy", program |-> "sd_dummy", config |-> ""]

RequestNames == {r.name : r \in Requests}

(* Other files are no regular files, or not named sd_...  or               *)
(* ...-generic.conf, or are no configuration that can be parsed.           *)
ModuleFiles  == [is : {"module", "generic", "other"}, asks : Requests]
VariantFiles == [is : {"variant", "other"}, asks : Requests, needs : SUBSET Dependencies]

ASSUME LoadAssumption ==
  /\ {Fallback, Dummy} \subseteq Requests /\ NoName \notin RequestNames
  /\ Directories \in Seq(Seq(ModuleFiles)) /\ Variants \in Seq(Seq(VariantFiles))
  /\ Preference \in Seq(RequestNames) /\ Present \subseteq Dependencies

(* GenericCmdDependency and GenericPortDependency: each is tried.          *)
Missing(file) == file.needs \ Present

(* detect_generic_modules() for both configuration directories: each       *)
(* variant of sd_generic that lacks nothing is a module of its own.        *)
Usable(dir) ==
  FlattenSeq([i \in DOMAIN dir |->
    IF dir[i].is = "variant" /\ Missing(dir[i]) = {} THEN <<dir[i].asks>> ELSE <<>>])

Generics == FlattenSeq([i \in DOMAIN Variants |-> Usable(Variants[i])])

(* detect_output_modules() for one directory. *)
DetectedIn(dir) ==
  FlattenSeq([i \in DOMAIN dir |->
    CASE dir[i].is = "module"  -> <<dir[i].asks>>
      [] dir[i].is = "generic" -> Generics
      [] dir[i].is = "other"   -> <<>>])

Named(reqs, name) ==
  FlattenSeq([i \in DOMAIN reqs |-> IF reqs[i].name = name THEN <<reqs[i]>> ELSE <<>>])

(* All directories, then g_list_sort(), which is stable: of two modules    *)
(* with one name the first directory's is first.                           *)
Detected ==
  LET found == FlattenSeq([i \in DOMAIN Directories |-> DetectedIn(Directories[i])])
  IN  FlattenSeq([i \in DOMAIN Preference |-> Named(found, Preference[i])])

(* module_already_requested() *)
AlreadyRequested(reqs, r) ==
  \E i \in DOMAIN reqs :
    \/ reqs[i].name = r.name
    \/ reqs[i].program = r.program /\ reqs[i].config = r.config

AddRequest(reqs, r) == IF AlreadyRequested(reqs, r) THEN reqs ELSE Append(reqs, r)

(* speechd_load_configuration(): the modules that AddModule names, or else *)
(* those detected, and at last the two that are always there; none at all  *)
(* when the file cannot be read.                                           *)
Requested(conf) ==
  LET wanted == IF conf.modules = <<>> THEN Detected ELSE conf.modules
  IN  IF ~conf.readable THEN <<>>
      ELSE FoldLeft(AddRequest, <<>>, wanted \o <<Fallback, Dummy>>)

-----------------------------------------------------------------------------
(* The choice of a module.  The operators give a position in the list, 0   *)
(* for NULL.                                                               *)

FirstOf(S) == IF S = {} THEN 0 ELSE CHOOSE i \in S : \A j \in S : i <= j

(* get_output_module_by_name(): the first of that name, if it works.       *)
ByName(mods, name) ==
  LET i == FirstOf({j \in DOMAIN mods : mods[j].name = name})
  IN  IF i # 0 /\ mods[i].works THEN i ELSE 0

WorkingOther(mods) ==
  FirstOf({j \in DOMAIN mods : mods[j].works /\ mods[j].name # "dummy"})

(* When the loop finds none its last element is returned if it works: that *)
(* can only be dummy.                                                      *)
BuggyLastResort(mods) == Len(mods)
LastResort(mods) ==
  IF mods # <<>> /\ mods[Len(mods)].works THEN Len(mods) ELSE ByName(mods, "dummy")

(* get_some_output_module_by_name() *)
Chosen(mods, name, default) ==
  LET wanted == ByName(mods, name)
      usual  == ByName(mods, default)
  IN  IF name # NoName /\ wanted # 0 THEN wanted
      ELSE IF default # NoName /\ usual # 0 THEN usual
      ELSE IF WorkingOther(mods) # 0 THEN WorkingOther(mods)
      ELSE LastResort(mods)
=============================================================================
