----------------------------- MODULE EventList -----------------------------
(***************************************************************************)
(* What a module's storage of events is meant to be: a list.  An event     *)
(* that is added goes to its end, if there is room; to remove an event     *)
(* takes that event out, once, if it is there; a restart changes nothing.  *)
(***************************************************************************)
EXTENDS Sequences, SequencesExt

CONSTANT EventBlob

VARIABLES
    events,     \* the list
    command     \* the last command: what was done, and with which event

vars == <<events, command>>

Init ==
    /\ events = <<>>
    /\ command = <<"none">>

Add(e) ==
    /\ command' = <<"add", e>>
    /\ events' = Append(events, e)

AddFails(e) ==
    /\ command' = <<"add_fails", e>>
    /\ UNCHANGED events

RemoveOne(e) ==
    /\ command' = <<"remove", e>>
    /\ \/ \E k \in DOMAIN events : events[k] = e /\ events' = RemoveAt(events, k)
       \/ (\A k \in DOMAIN events : events[k] # e) /\ UNCHANGED events

RemoveAll ==
    /\ command' = <<"remove_all">>
    /\ events' = <<>>

Restart ==
    /\ command' = <<"restart">>
    /\ UNCHANGED events

Next ==
    \/ \E e \in EventBlob : Add(e) \/ AddFails(e) \/ RemoveOne(e)
    \/ RemoveAll \/ Restart

Spec == Init /\ [][Next]_vars
============================================================================
