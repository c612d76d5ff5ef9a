------------------------------ MODULE Repository ------------------------------
(* The input files of a run as somebody goes on editing them, and the hashing*)
(* of all of them, one after the other: verification_inputs and sha256_file  *)
(* in run_tests.py.  A hash is the version of the content it was taken of.   *)
EXTENDS Integers, Sequences, FiniteSets, TLC

CONSTANTS
  InputFiles,     \* the names the glob patterns may match, in path order
  CoreFiles,      \* those under rtl/core
  Added,          \* those that are not there at first
  MaxEdits        \* bound: edits

VARIABLES
  repo,           \* the version of every file, or Absent
  past,           \* the versions it has had
  listed, hashed  \* a pass over the inputs: what is still to hash, hashes so far

repoVars == <<repo, past>>
passVars == <<listed, hashed>>

Absent == -1
Files  == {InputFiles[i] : i \in DOMAIN InputFiles}
Edits  == Cardinality(past) - Cardinality(Files)

RepoInit ==
  /\ repo = [f \in Files |-> IF f \in Added THEN Absent ELSE 0]
  /\ past = {<<f, repo[f]>> : f \in Files}
  /\ listed = {} /\ hashed = <<>>

(* A file is written, removed or added.  Nobody restores a content it had    *)
(* before: no hash could show that.                                          *)
Edit ==
  \E f \in Files, v \in {Absent, Edits + 1} :
    /\ Edits < MaxEdits
    /\ <<f, v>> \notin past
    /\ repo' = [repo EXCEPT ![f] = v]
    /\ past' = past \union {<<f, v>>}
    /\ UNCHANGED passVars

present(f) == f \in Files /\ repo[f] # Absent

(* The inputs in path order are named by their positions. *)
verification_inputs == {i \in DOMAIN InputFiles : present(InputFiles[i])}

List == listed' = verification_inputs /\ hashed' = <<>>

put(d, k, v) == [x \in DOMAIN d \union {k} |-> IF x = k THEN v ELSE d[x]]

first(i) == i \in listed /\ \A j \in listed : i <= j

HashOne ==
  \E i \in listed :
    /\ first(i) /\ present(InputFiles[i])
    /\ hashed' = put(hashed, InputFiles[i], repo[InputFiles[i]])
    /\ listed' = listed \ {i}

Unreadable == \E i \in listed : first(i) /\ ~present(InputFiles[i])
Hashed     == listed = {}
==============================================================================
