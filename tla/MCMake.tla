------------------------------- MODULE MCMake -------------------------------
(* A program on two modules of the runtime. *)
EXTENDS Make

MCModule  == {"Main", "Files", "Errors"}
MCImports == [m \in MCModule |-> CASE m = "Main"  -> << "Files" >>
                                   [] m = "Files" -> << "Errors" >>
                                   [] OTHER -> << >>]
(* Files hands on Errors.Error. *)
MCExposes == [m \in MCModule |-> IF m = "Files" THEN {"Errors"} ELSE {}]
(* Like Controls, which calls TUI in its bodies only. *)
MCHidden == [m \in MCModule |-> {}]
=============================================================================
