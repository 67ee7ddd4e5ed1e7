------------------------------ MODULE FileTree ------------------------------
(***************************************************************************)
(* The files of a drive as the one who imports a program may think of      *)
(* them: each file that is written appears at its path, or replaces the    *)
(* one there, and no other file changes.  An import that fails may leave   *)
(* what it likes of the files it has put, and files that nobody put, and   *)
(* has to leave all the others alone.                                      *)
(***************************************************************************)
EXTENDS Naturals

VARIABLES
    files,    \* the files: records of a path and of the content found there
    touched,  \* paths that the running import has put
    written,  \* how many files imports were asked to write
    failed    \* has an import failed?

vars == <<files, touched, written, failed>>

Init ==
    /\ \A f, g \in files : f.path = g.path => f = g
    /\ touched = {} /\ written = 0 /\ failed = FALSE

Without(some, paths) == {f \in some : f.path \notin paths}

Put ==
    /\ \E f \in files' : /\ files' = Without(files, {f.path}) \union {f}
                         /\ touched' = touched \union {f.path}
    /\ written' = written + 1 /\ UNCHANGED failed

Delete ==
    /\ touched = {} /\ \E f \in files : files' = Without(files, {f.path})
    /\ UNCHANGED <<touched, written, failed>>

Finish == touched' = {} /\ UNCHANGED <<files, written, failed>>

\* Of the files the job has not put, none is lost and none has changed.
Fail ==
    /\ Without(files, touched) \subseteq files'
    /\ \A f \in files', g \in Without(files, touched) : f.path = g.path => f = g
    /\ touched' = {} /\ failed' = TRUE /\ written' \in {written, written + 1}

Next == Put \/ Delete \/ Finish \/ Fail

Spec == Init /\ [][Next]_vars
=============================================================================
