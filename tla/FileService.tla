----------------------------- MODULE FileService -----------------------------
(* What the file server promises: a tree of files on which every request has *)
(* its effect at once, or fails and has none.                                *)
CONSTANTS Id, Path, NONE

VARIABLES
    files,      \* path -> text or NONE
    call        \* the requests the server is working on

Answer(q, a) == call' = [call EXCEPT ![q].ans = a]

Open(q, c) == /\ call[q] = NONE /\ c.ans = NONE
              /\ call' = [call EXCEPT ![q] = c]
              /\ UNCHANGED files

Read(q) == /\ Answer(q, files[call[q].path])
           /\ UNCHANGED files

Put(q) == /\ files' = [files EXCEPT ![call[q].path] = call[q].text]
          /\ Answer(q, "ok")

Delete(q) == /\ files' = [files EXCEPT ![call[q].path] = NONE]
             /\ Answer(q, "ok")

Move(q) == /\ files' = [files EXCEPT ![call[q].path] = NONE,
                                     ![call[q].to] = files[call[q].path]]
           /\ Answer(q, "ok")

Effect(q) ==
    /\ call[q] # NONE /\ call[q].ans = NONE
    /\ \/ /\ files[call[q].path] = NONE /\ call[q].op # "PUT"
          /\ Answer(q, "missing") /\ UNCHANGED files
       \/ /\ files[call[q].path] # NONE
          /\ CASE call[q].op = "GET"    -> Read(q)
               [] call[q].op = "HEAD"   -> Answer(q, "ok") /\ UNCHANGED files
               [] call[q].op = "DELETE" -> Delete(q)
               [] call[q].op = "POST"   -> Move(q)
               [] OTHER                 -> FALSE
       \/ call[q].op = "PUT" /\ Put(q)
       \/ Answer(q, "failed") /\ UNCHANGED files

(* A request is over, or the server is stopped and all of them are. *)
End(Q) == /\ call' = [q \in Id |-> IF q \in Q THEN NONE ELSE call[q]]
          /\ UNCHANGED files

Next == \/ \E Q \in SUBSET Id : End(Q)
        \/ \E q \in Id : Effect(q)
        \/ \E q \in Id : call[q] = NONE /\ call'[q] # NONE /\ Open(q, call'[q])

Init == call = [q \in Id |-> NONE]

Spec == Init /\ [][Next]_<<files, call>>
=============================================================================
