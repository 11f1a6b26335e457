------------------------------ MODULE RunFile ------------------------------
(***************************************************************************)
(* A run's state.json, as write_json and read_json of                       *)
(* src/app/image_generation_case/reporting.py treat it.  Path.write_text    *)
(* truncates the file when it opens it and writes it afterwards, so a       *)
(* writer takes two steps, and nothing keeps the readers or another writer  *)
(* out between them.  A reader that finds no whole document raises.         *)
(***************************************************************************)
EXTENDS Integers

CONSTANTS NoFile,  \* the file is not there yet
          Empty,   \* a writer has opened it
          Torn     \* what is left of two overlapping writers

Unreadable == {NoFile, Empty, Torn}

(* What the file holds after the second step.  Written over a document that *)
(* another writer has put there meanwhile, a shorter one leaves its end.    *)
AfterWrite(file, document) == IF file = Empty THEN {document}
                                              ELSE {document, Torn}
=============================================================================
