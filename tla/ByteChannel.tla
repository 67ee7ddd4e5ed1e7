---------------------------- MODULE ByteChannel ----------------------------
(***************************************************************************)
(* What the keyboard controller promises the guest: one channel of bytes   *)
(* with a presented byte at its end, which a read takes, and Size places   *)
(* behind it.  Bytes come out in the order they went in, each at most      *)
(* once.  Of the bytes offered together the first are taken that there is  *)
(* room for, and a byte is lost in no other way: not when it is presented, *)
(* not by a read that comes before the next one is.  A machine reset       *)
(* empties the channel.                                                    *)
(*                                                                         *)
(* port is what the last step passed to or from the channel, so that a     *)
(* step of the detailed specification is allowed only what its call        *)
(* promises.                                                               *)
(***************************************************************************)
EXTENDS Naturals, Sequences

CONSTANTS Byte, Size

VARIABLES
    chan,   \* the bytes not yet read
    ready,  \* the first of them is presented
    port    \* the last call and its bytes

Init == chan = << >> /\ ready = FALSE

\* A presented byte does not count against the places behind it.
Room == (IF ready THEN Size + 1 ELSE Size) - Len(chan)
Admitted(bs) == IF Len(bs) <= Room THEN bs ELSE SubSeq(bs, 1, Room)

\* Bytes are offered, and as many of them as there is room for are taken.
Offer ==
    /\ port'.op = "offer" /\ port'.bytes \in Seq(Byte)
    /\ chan' = chan \o Admitted(port'.bytes)
    /\ UNCHANGED ready

\* A read answers with the presented byte and takes it.
ReadPresented ==
    /\ ready
    /\ port' = [op |-> "read", bytes |-> <<Head(chan)>>]
    /\ chan' = Tail(chan)
    /\ ready' = FALSE

\* A read with nothing presented answers with some byte and takes none, even
\* while bytes wait.
ReadStale ==
    /\ ~ready
    /\ port'.op = "read"
    /\ UNCHANGED <<chan, ready>>

\* Nothing passes: at most the next byte is presented.
Quiet ==
    /\ port'.op = "none"
    /\ ready' = ready \/ (~ready /\ ready' /\ chan # << >>)
    /\ UNCHANGED chan

Clear ==
    /\ port'.op = "reset"
    /\ chan' = << >> /\ ready' = FALSE

Next == Offer \/ ReadPresented \/ ReadStale \/ Quiet \/ Clear

Spec == Init /\ [][Next]_<<chan, ready, port>>
============================================================================
