------------------------------ MODULE MCSystem ------------------------------
(***************************************************************************)
(* One run, one worker of each kind and one reviewer.  Besides the         *)
(* operator's manifest there are two that may come before or after it: an  *)
(* instrument's with another archive and no device, and a correction of    *)
(* the sample, to a name that sanitizeSeg changes, and of the parameters.  *)
(***************************************************************************)
EXTENDS System

CONSTANTS go1, go2, py1, alice

MCDigest == {"x", "y", "plain", "probe"}

File1(name, sha) ==
  [abs |-> FALSE, path |-> <<name>>, type |-> "file", size |-> 1, sha |-> sha]

MCEntries ==
  [plain   |-> <<File1("iv", "x")>>,
   probe   |-> <<File1("iv", "y")>>,
   damaged |-> <<>>]

Plain ==
  [schema |-> 1, run |-> "run", source |-> "operator", declaredBy |-> "alice",
   agent |-> "pc", measurement |-> "transfer", declaredAt |-> "past", absolute |-> TRUE,
   files |-> <<[name |-> <<"iv">>, bytes |-> 1, sha |-> "x"]>>,
   instrument |-> <<>>, packed |-> "run.tar", archive |-> "plain",
   labels |-> <<>>, params |-> <<1>>,
   sample |-> "s", device |-> "d"]

MCBody ==
  [operator   |-> Plain,
   instrument |-> [Plain EXCEPT !.source = "instrument", !.device = "", !.archive = "probe",
                                !.files = <<[name |-> <<"iv">>, bytes |-> 1, sha |-> "y"]>>],
   corrected  |-> [Plain EXCEPT !.sample = "s/1", !.params = <<2>>]]

MCManifest == DOMAIN MCBody

MCSegment == [name \in {"s", "d", "s/1"} |-> IF name = "s/1" THEN "s_1" ELSE name]
=============================================================================
