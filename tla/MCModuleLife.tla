---------------------------- MODULE MCModuleLife ----------------------------
(* Directories and configuration files for ModuleLife.  The dummy module   *)
(* is found in a directory and asked for in any case, under one name; a    *)
(* variant of generic is usable, another lacks a command.                  *)
EXTENDS ModuleLife

MCDummy == [name |-> "dummy", program |-> "sd_dummy", config |-> "dummy.conf"]
MCMary  == [name |-> "mary-generic", program |-> "sd_generic", config |-> "mary-generic.conf"]
MCFlite == [name |-> "flite-generic", program |-> "sd_generic", config |-> "flite-generic.conf"]

MCRequests    == {MCDummy, MCMary, MCFlite, Fallback, Dummy}
MCDirectories ==
  << <<[is |-> "module", asks |-> MCDummy]>>,
     <<[is |-> "other", asks |-> MCFlite], [is |-> "generic", asks |-> MCMary]>> >>
MCVariants    ==
  << <<[is |-> "variant", asks |-> MCMary, needs |-> {"curl"}]>>,
     <<[is |-> "variant", asks |-> MCFlite, needs |-> {"curl", "flite"}]>> >>
MCPreference  == <<"dummy", "flite-generic", "mary-generic">>

(* One file names a module and a default; one leaves both to the server.   *)
MCConfigurations ==
  {[readable |-> TRUE, modules |-> <<MCDummy>>, default |-> "espeak-ng-fallback"],
   [readable |-> TRUE, modules |-> <<>>, default |-> NoName]}
=============================================================================
