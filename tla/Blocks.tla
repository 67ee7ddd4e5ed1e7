------------------------------- MODULE Blocks -------------------------------
(***************************************************************************)
(* A disk as the programs that use it may think of it: a write changes the *)
(* content at once, a read answers with the content at one moment, and it  *)
(* fails only for a sector that does not exist or has gone bad.  A read    *)
(* may take its time, and be interrupted by other calls meanwhile.         *)
(***************************************************************************)
EXTENDS Naturals, Sequences, SequencesExt

CONSTANTS
    Sectors,   \* the sectors of the disk
    Requests,  \* what is asked for: sets of sectors
    Version    \* what a sector may contain; 0 is what it contained at first

VARIABLES
    content,  \* what each sector contains
    bad,      \* sectors that have gone bad
    calls,    \* reads that have not been answered, each interrupting the one before
    reply     \* the answer to the last call that was answered

vars == <<content, bad, calls, reply>>

Reply(r, how, data) == [sectors |-> r, how |-> how, data |-> data]
NoData == [s \in {} |-> 0]
NoReply == Reply({}, "none", NoData)

Init == content = [s \in Sectors |-> 0] /\ bad = {} /\ calls = << >> /\ reply = NoReply

Answer(r) ==
    IF r \subseteq Sectors \ bad
    THEN Reply(r, "read", [s \in r |-> content[s]])
    ELSE Reply(r, "error", NoData)

Ask(r) == calls' = Append(calls, r) /\ UNCHANGED <<content, bad, reply>>
ReadAtOnce(r) == reply' = Answer(r) /\ UNCHANGED <<content, bad, calls>>
Answered ==
    /\ calls # << >>
    /\ reply' = Answer(Last(calls))
    /\ calls' = Front(calls)
    /\ UNCHANGED <<content, bad>>

Write(r, v) ==
    /\ IF r \subseteq Sectors
       THEN /\ content' = [s \in Sectors |-> IF s \in r THEN v ELSE content[s]]
            /\ bad' = bad \ r
            /\ reply' = Reply(r, "written", NoData)
       ELSE reply' = Reply(r, "error", NoData) /\ UNCHANGED <<content, bad>>
    /\ UNCHANGED calls

GoBad == bad' \in {bad \union b : b \in SUBSET Sectors} /\ UNCHANGED <<content, calls, reply>>
Abandon == calls' = << >> /\ UNCHANGED <<content, bad, reply>>

Next ==
    \/ \E r \in Requests : Ask(r) \/ ReadAtOnce(r) \/ \E v \in Version : Write(r, v)
    \/ Answered \/ GoBad \/ Abandon

Spec == Init /\ [][Next]_vars
=============================================================================
