----------------------------- MODULE AtomicWrite -----------------------------
(***************************************************************************)
(* What writing a file promises its callers: a call puts its whole content *)
(* under the file's name in one step or not at all, creates only what is   *)
(* absent, never takes a directory's place, puts it there at most once,    *)
(* and is told what happened: no rejection for the target's sake once it   *)
(* wrote, no success unless it did.  FileAdapter is shown to implement     *)
(* this; MemoryAdapter and NetworkAdapter write in a single step.          *)
(***************************************************************************)
CONSTANTS Writers, Contents,
          CallNumbers,    \* one for each call that may be made, 0 for none
          Outcomes,       \* what a caller may be told
          TargetReasons   \* those of them that blame the target

VARIABLES call,      \* the number of the call a writer is in
          mode,      \* "create", "overwrite" or "anchored"
          content,   \* what it writes
          entry,     \* what the file's name stands for
          placed,    \* the calls that put their content there
          told       \* what callers were told

vars == <<call, mode, content, entry, placed, told>>

Init == /\ call = [w \in Writers |-> 0]
        /\ mode = [w \in Writers |-> "none"]
        /\ content = [w \in Writers |-> "none"]
        /\ entry = "absent"
        /\ placed = {} /\ told = {}

InCall(w) == call[w] # 0

HasWritten(w) == \E p \in placed : p.call = call[w]

\* A call of a number that no call had.
Begin(w) ==
  /\ ~InCall(w)
  /\ \E n \in CallNumbers, m \in {"create", "overwrite", "anchored"}, c \in Contents :
       /\ \A v \in Writers : call[v] # n
       /\ \A a \in placed \cup told : a.call # n
       /\ call' = [call EXCEPT ![w] = n]
       /\ mode' = [mode EXCEPT ![w] = m]
       /\ content' = [content EXCEPT ![w] = c]
  /\ UNCHANGED <<entry, placed, told>>

\* The content is there, all of it.
Write(w) ==
  /\ InCall(w)
  /\ ~HasWritten(w)
  /\ entry # "directory"
  /\ mode[w] = "create" => entry = "absent"
  /\ entry' = content[w]
  /\ placed' = placed \cup {[call |-> call[w], mode |-> mode[w]]}
  /\ UNCHANGED <<call, mode, content, told>>

End(w) == /\ call' = [call EXCEPT ![w] = 0]
          /\ mode' = [mode EXCEPT ![w] = "none"]
          /\ content' = [content EXCEPT ![w] = "none"]

\* file.write says "committed" only of a file that still has what it wrote.
Answer(w, outcome) ==
  /\ InCall(w)
  /\ outcome = "committed" =>
       HasWritten(w) /\ (mode[w] # "anchored" => entry = content[w])
  /\ outcome \in TargetReasons => ~HasWritten(w)
  /\ told' = told \cup {[call |-> call[w], outcome |-> outcome]}
  /\ End(w)
  /\ UNCHANGED <<entry, placed>>

\* The writer dies; nobody is told.
Die(w) == InCall(w) /\ End(w) /\ UNCHANGED <<entry, placed, told>>

\* People and programs outside the runtime do what they like with the file.
Outsider == /\ entry' \in {"absent", "directory", "symlink", "foreign"}
            /\ UNCHANGED <<call, mode, content, placed, told>>

Next == \/ Outsider
        \/ \E w \in Writers :
             \/ Begin(w) \/ Write(w) \/ Die(w)
             \/ \E outcome \in Outcomes : Answer(w, outcome)

Spec == Init /\ [][Next]_vars
=============================================================================
