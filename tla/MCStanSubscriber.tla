-------------------------- MODULE MCStanSubscriber --------------------------
(***************************************************************************)
(* The start positions of the streaming subscriber's run: all messages,    *)
(* the last one received, from a sequence number on, and a time, which     *)
(* comes before the number.                                                *)
(***************************************************************************)
EXTENDS StanSubscriber

MCPositions ==
    {[time |-> 0, sequence |-> 0], [time |-> 0, sequence |-> -1],
     [time |-> 0, sequence |-> 2], [time |-> 3, sequence |-> 1]}

=============================================================================
