----------------------------- MODULE EventStore -----------------------------
(***************************************************************************)
(* The events that a module stores (ESP_LittleFS in                        *)
(* src/Modules/Common/Filesystem, called by Automato::parse_frame and      *)
(* setup): a file to which events are appended, one behind the other.  The *)
(* first byte of an event tells its type and its size.  An event is        *)
(* removed by zeros written over it, and zeros between events are skipped. *)
(*                                                                         *)
(* The file system keeps a file's old contents or its new ones when the    *)
(* module stops in between, so a command is one step.                      *)
(***************************************************************************)
EXTENDS Integers, FiniteSets, SequencesExt

CONSTANTS
    EventBlob,      \* the events a module may be told to store
    FileCapacity,   \* how large the file can become
    AMOUNT_OF_MAIN_EVENTS, AMOUNT_OF_CHILD_EVENTS

Byte == 0..255

(* The two highest bits of the first byte, and the three lowest.           *)
event_type_from_byte(b) == <<"Main", "Command", "If", "NOT_SET">>[(b \div 64) + 1]
type_used_size(b) == <<1, 2, 4, 8, 4, 8, 1, 0>>[(b % 8) + 1]

serialized_size(b) ==
    CASE event_type_from_byte(b) = "Main" -> 5 + type_used_size(b)
      [] event_type_from_byte(b) = "Command" -> 5
      [] event_type_from_byte(b) = "If" -> 6 + type_used_size(b)
      [] event_type_from_byte(b) = "NOT_SET" -> 0

ASSUME EventAssumption ==
    /\ EventBlob \subseteq Seq(Byte)
    /\ \A e \in EventBlob : e # <<>> /\ Len(e) = serialized_size(e[1]) /\ Len(e) > 0
    /\ {FileCapacity, AMOUNT_OF_MAIN_EVENTS, AMOUNT_OF_CHILD_EVENTS} \subseteq Nat

VARIABLES
    file,           \* the bytes of EVENTS_FILE
    loaded,         \* m_main_events and m_child_events together, in the file's order
    overrun,        \* history: load_events wrote past the end of a buffer
    hung,           \* a search through the file never ends
    blank,          \* history: an event whose first byte is 0 was stored
    command         \* history: the last command, and whether it succeeded

storeVars == <<file, loaded, overrun, hung, blank, command>>

----------------------------------------------------------------------------
(* seek_curser_to_next_event: over zeros to the event at the cursor, and,  *)
(* unless that is asked for, past it and over zeros to the next.  A byte   *)
(* that is no event's first byte ends the search where it is, and so every *)
(* later search too: cursors stop there.                                   *)

(* Mutant: zeros are not skipped. *)
SeekHere(f, position) == position

SeekNonZero(f, position) ==
    LET Found == {p \in position..Len(f) : f[p] # 0}
    IN IF Found = {} THEN Len(f) + 1 ELSE CHOOSE p \in Found : \A q \in Found : p <= q

(* The cursors of a search from each position to the end of the file. *)
CursorsFrom(f) ==
    LET From[position \in 1..(Len(f) + 14)] ==
            LET c == SeekNonZero(f, position)
            IN IF position > Len(f) \/ c > Len(f) THEN <<>>
               ELSE IF event_type_from_byte(f[c]) = "NOT_SET" THEN <<c>>
               ELSE <<c>> \o From[c + serialized_size(f[c])]
    IN From

CursorsOf(f) == CursorsFrom(f)[1]

(* The end of the file may cut off what is taken for an event. *)
EventAt(f, c) == SubSeq(f, c, Min({c + serialized_size(f[c]) - 1, Len(f)}))

(* The events in the file, in order, as far as a search gets. *)
EventsIn(f) ==
    LET cursors == CursorsOf(f)
    IN [k \in {i \in DOMAIN cursors : event_type_from_byte(f[cursors[i]]) # "NOT_SET"}
          |-> EventAt(f, cursors[k])]

NeverEnds(f) == \E k \in DOMAIN CursorsOf(f) : event_type_from_byte(f[CursorsOf(f)[k]]) = "NOT_SET"

(* Mutant: only the first byte is overwritten. *)
ZerosHead(f, c, size) == [f EXCEPT ![c] = 0]

Zeros(f, c, size) == [p \in DOMAIN f |-> IF p \in c..(c + size - 1) THEN 0 ELSE f[p]]

(* remove_event: what becomes of the file.  The loop over the other bytes  *)
(* of the event continues itself where it means to continue the search, so *)
(* the first event with the same first byte is the one removed.            *)
remove_event(f, e) ==
    LET cursors == CursorsOf(f)
        k == SelectInSeq(cursors, LAMBDA c : f[c] = e[1])
    IN IF k = 0 THEN f
       ELSE IF cursors[k] + Len(e) - 1 > Len(f) THEN f
       ELSE Zeros(f, cursors[k], Len(e))

StoreInit ==
    /\ file = <<>>
    /\ loaded = <<>>
    /\ overrun = FALSE
    /\ hung = FALSE
    /\ blank = FALSE
    /\ command = <<"none">>

(* load_events, the second half of every command: it does not look at how  *)
(* much room the buffers have.                                             *)
reload_event_buffers ==
    LET OfType(types) == Cardinality({k \in DOMAIN loaded' :
                                        event_type_from_byte(loaded'[k][1]) \in types}) IN
    /\ loaded' = EventsIn(file')
    /\ overrun' = \/ overrun
                  \/ OfType({"Main"}) > AMOUNT_OF_MAIN_EVENTS
                  \/ OfType({"Command", "If"}) > AMOUNT_OF_CHILD_EVENTS
    /\ hung' = NeverEnds(file')

----------------------------------------------------------------------------
(* Mutant: the file has room for ever. *)
HasRoomAlways(e) == TRUE

HasRoom(e) == Len(file) + Len(e) <= FileCapacity

EVENT_ADD(e) ==
    /\ ~hung
    /\ \/ /\ HasRoom(e)
          /\ file' = file \o e
          /\ blank' = (blank \/ e[1] = 0)
          /\ command' = <<"add", e>>
       \/ /\ ~HasRoom(e)
          /\ command' = <<"add_fails", e>>
          /\ UNCHANGED <<file, blank>>
    /\ reload_event_buffers

EVENT_REMOVE(e) ==
    /\ ~hung
    /\ file' = remove_event(file, e)
    /\ command' = <<"remove", e>>
    /\ reload_event_buffers
    /\ UNCHANGED blank

(* EVENT_REMOVE_ALL and FORMAT_EEPROM. *)
EVENT_REMOVE_ALL ==
    /\ ~hung
    /\ file' = <<>>
    /\ blank' = FALSE
    /\ command' = <<"remove_all">>
    /\ reload_event_buffers

(* setup, after the module lost power at any time. *)
Restart ==
    /\ UNCHANGED <<file, blank>>
    /\ command' = <<"restart">>
    /\ reload_event_buffers

StoreNext ==
    \/ \E e \in EventBlob : EVENT_ADD(e) \/ EVENT_REMOVE(e)
    \/ EVENT_REMOVE_ALL \/ Restart

StoreSpec == StoreInit /\ [][StoreNext]_storeVars

----------------------------------------------------------------------------
StoreTypeOK ==
    /\ file \in Seq(Byte) /\ Len(file) <= FileCapacity
    /\ loaded \in Seq(Seq(Byte))
    /\ {overrun, hung, blank} \subseteq BOOLEAN

List == INSTANCE EventList WITH events <- loaded

(* What the comments at ESP_LittleFS.cpp:220-225 ("Did not find the correct *)
(* location.", "We found this correct event position.") say of a removal,  *)
(* that of a command to remove an event it removes that event: the file is *)
(* an EventList, until an event with first byte 0 is stored or more events *)
(* than the buffers hold.  Violated: the comparison of the bytes decides   *)
(* nothing.                                                                *)
IsAList == [][~blank' /\ ~overrun' => List!Next]_<<loaded, command>>

(* An event is stored that starts as e does and is another. *)
LooksLike(e) == \E k \in DOMAIN loaded : loaded[k][1] = e[1] /\ loaded[k] # e

(* The wrong event may go only while one is stored that starts like the    *)
(* one to be removed, and even then one event goes, whole, and the others  *)
(* stay as they were.  All else is as in an EventList: each event is read  *)
(* back whole and in order, whatever holes the removals leave between them *)
(* and whatever bytes events hold.  The first byte and the buffers are     *)
(* those of IsAList.                                                       *)
RemoveAnother(e) ==
    /\ command' = <<"remove", e>> /\ LooksLike(e)
    /\ \E k \in DOMAIN loaded : loaded' = RemoveAt(loaded, k)
StoresAList ==
    [][~blank' /\ ~overrun' => List!Next \/ \E e \in EventBlob : RemoveAnother(e)]_<<loaded, command>>

(* Until then a module never ends up in a search without end, which no     *)
(* restart gets it out of.                                                 *)
HangsOnlyAfterBlank == hung => blank
=============================================================================
