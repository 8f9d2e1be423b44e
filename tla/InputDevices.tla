----------------------------- MODULE InputDevices ----------------------------
(***************************************************************************)
(* The drivers of the keyboard (drivers/keyboard) and of the mouse         *)
(* (drivers/mouse): bytes of the controller, read by the interrupt         *)
(* handlers, become events of a virtual process.                           *)
(*                                                                         *)
(* The keyboard sends the code of a key when it goes down and the code     *)
(* plus 128 when it goes up, after a prefix if the key is an extended one. *)
(* The tables of the driver hold for each code of a released key what they *)
(* hold for the key's code.  A listener hears every event.                 *)
(***************************************************************************)
EXTENDS Integers, Sequences, FiniteSets

CONSTANTS
    Keys,           \* keys that are used: <<code, extended>>
    MaxScanCodes,   \* bound on the bytes that wait in the keyboard
    Moves           \* movements of the mouse along an axis, in -128 .. 127

\* Codes that setup_char_table knows: characters, modifiers, and the arrows,
\* which are the extended keys among these.
CharCodes == (2 .. 13) \cup (16 .. 27) \cup (30 .. 41) \cup (43 .. 53) \cup {57}
ModifierCodes == {1, 14, 28, 29, 42, 58}
ArrowCodes == {72, 75, 77, 80}

\* No key has the code 96, whose release would look like the prefix.
ASSUME InputDevicesAssumption ==
    /\ Keys \subseteq (1 .. 127 \ {96}) \X BOOLEAN
    /\ MaxScanCodes \in Nat
    /\ Moves \subseteq -128 .. 127

VARIABLES
    down,           \* the keys that are down
    scancodes,      \* bytes that wait in the keyboard
    missed,         \* was a prefix read without the byte behind it?
    heard,          \* what a listener takes to be down, by the code of the event
    buttons,        \* the buttons the mouse driver takes to be pressed
    hand,           \* the buttons that are pressed, and the last movement
    told            \* what a listener of the mouse makes of its events

inputVars == <<down, scancodes, missed, heard, buttons, hand, told>>

Button == {"left", "right", "middle"}
Still == [x |-> 0, y |-> 0]

InputInit ==
    /\ down = {} /\ scancodes = <<>> /\ missed = FALSE /\ heard = {}
    /\ buttons = {}
    /\ hand = [pressed |-> {}, move |-> Still]
    /\ told = [pressed |-> {}, move |-> Still]
-----------------------------------------------------------------------------
(***************************************************************************)
(* The keyboard.                                                           *)
(***************************************************************************)

Prefix == 224
ReleaseBit == 128

\* A key goes down or up: the device queues its bytes.
Strikes(key) ==
    LET up == key \in down
        code == key[1] + (IF up THEN ReleaseBit ELSE 0)
    IN  /\ Len(scancodes) + 2 <= MaxScanCodes
        /\ down' = IF up THEN down \ {key} ELSE down \cup {key}
        /\ scancodes' = scancodes \o IF key[2] THEN <<Prefix, code>> ELSE <<code>>
        /\ UNCHANGED <<missed, heard, buttons, hand, told>>

\* Faulty variant: an extended key is taken for the key with the same code.
KeyRawUnprefixed(first, second) == IF first = Prefix THEN second ELSE first

\* The code of an extended key is moved behind those of one byte.
KeyRaw(first, second) == IF first = Prefix THEN 255 + second ELSE first

\* Faulty variant: the bit of a release is not looked at.
CharPressedEither(k) == k % ReleaseBit \in CharCodes

\* The four events, in the order the handler asks for them.  The codes of
\* arrows that go up are in the table of pressed modifiers.
CharPressed(k) == k \in CharCodes
CharReleased(k) == k - ReleaseBit \in CharCodes
ModifierPressed(k) ==
    \/ k \in ModifierCodes
    \/ k - 255 \in ArrowCodes
    \/ k - 255 - ReleaseBit \in ArrowCodes
ModifierReleased(k) == k - ReleaseBit \in ModifierCodes

EventOf(k) ==
    IF CharPressed(k) THEN <<1, k>>
    ELSE IF CharReleased(k) THEN <<2, k - ReleaseBit>>
    ELSE IF ModifierPressed(k) THEN <<4, k>>
    ELSE IF ModifierReleased(k) THEN <<8, k>>
    ELSE <<0, k>>

\* What a listener concludes that goes by the driver's list of events: 1 and 4
\* are presses, 2 and 8 releases.
Hears(event) ==
    CASE event[1] \in {1, 4} -> heard \cup {event[2]}
      [] event[1] = 2 -> heard \ {event[2]}
      [] event[1] = 8 -> heard \ {event[2] - ReleaseBit}
      [] OTHER -> heard

\* keyboard::handle_interrupt.  The byte behind a prefix is read at once; if it
\* is not there yet, the prefix is read again.
KeyboardInterrupt ==
    /\ scancodes # <<>>
    /\ \E early \in BOOLEAN :
        LET long == Head(scancodes) = Prefix
            second == IF early THEN Prefix ELSE scancodes[2]
        IN  /\ early => long
            /\ heard' = Hears(EventOf(IF long THEN KeyRaw(Prefix, second)
                                      ELSE KeyRaw(Head(scancodes), 0)))
            /\ scancodes' = IF long /\ ~early THEN Tail(Tail(scancodes)) ELSE Tail(scancodes)
            /\ missed' = (missed \/ early)
            /\ UNCHANGED <<down, buttons, hand, told>>
-----------------------------------------------------------------------------
(***************************************************************************)
(* The mouse.  Its driver is not loaded by the kernel.                     *)
(***************************************************************************)

Size(n) == IF n < 0 THEN -n ELSE n

\* The movement in one word: sizes in the low bytes, and a bit for each axis
\* that tells whether it is positive.
Word(x, y) ==
    256 * Size(x) + Size(y) + (IF x > 0 THEN 131072 ELSE 0) + (IF y > 0 THEN 65536 ELSE 0)

AxisOf(size, positive) == IF positive THEN size ELSE -size
Unpacked(w) ==
    [x |-> AxisOf((w \div 256) % 256, (w \div 131072) % 2 = 1),
     y |-> AxisOf(w % 256, (w \div 65536) % 2 = 1)]

\* The first byte of a packet: press events for buttons that were not pressed,
\* release events for those that were.
Edges(now) == [press |-> now \ buttons, release |-> buttons \ now]

\* An event for a press that was heard already would be taken for a release.
Toggled(set, edges) ==
    (set \ (edges.release \cup edges.press)) \cup (edges.press \ set)

\* mouse::handle_interrupt, on as many bytes of a packet as are there.  A packet
\* without movement has no event.
MouseInterrupt(now, x, y, count) ==
    LET edges == Edges(now)
        moves == count = 3 /\ (x # 0 \/ y # 0)
    IN  /\ buttons' = now
        /\ hand' = [pressed |-> now, move |-> IF moves THEN [x |-> x, y |-> y] ELSE hand.move]
        /\ told' = [pressed |-> Toggled(told.pressed, edges),
                    move |-> IF moves THEN Unpacked(Word(x, y)) ELSE told.move]
        /\ UNCHANGED <<down, scancodes, missed, heard>>

\* The devices share no state.
KeyboardNext ==
    \/ \E key \in Keys : Strikes(key)
    \/ KeyboardInterrupt

MouseNext ==
    \E now \in SUBSET Button, x \in Moves, y \in Moves, count \in 1 .. 3 :
        MouseInterrupt(now, x, y, count)

InputSpec == InputInit /\ [][KeyboardNext \/ MouseNext]_inputVars
-----------------------------------------------------------------------------
\* Every variable has a value of its type.
InputTypeOK ==
    /\ down \subseteq Keys
    /\ Len(scancodes) <= MaxScanCodes
    /\ missed \in BOOLEAN
    /\ heard \subseteq CharCodes \cup ModifierCodes
            \cup {255 + code + bit : code \in ArrowCodes, bit \in {0, ReleaseBit}}
    /\ buttons \subseteq Button

\* The code under which the driver reports a key it knows.
Reported(key) == IF key[2] THEN 255 + key[1] ELSE key[1]
Known(key) == key[1] \in IF key[2] THEN ArrowCodes ELSE CharCodes \cup ModifierCodes

\* All codes were read, and with the byte behind their prefix.
AllHeard == scancodes = <<>> /\ ~missed

\* A listener to all events of the keyboard takes the characters and modifiers
\* to be down that are, and no others: not one with the same code as an
\* extended key, whichever order keys go down and up in.
KeysAreReported ==
    AllHeard =>
        /\ \A key \in Keys : Known(key) /\ ~key[2] =>
                (Reported(key) \in heard <=> key \in down)
        /\ heard \subseteq {Reported(key) : key \in {k \in Keys : Known(k)}}
                \cup {Reported(key) + ReleaseBit : key \in {k \in Keys : Known(k) /\ k[2]}}

\* An arrow that is down is heard to be.  One that has gone up again is still
\* taken to be down, and so is a key that nobody has: the release of an arrow
\* comes as event 4, a press, with another code.  No event takes an arrow back.
ArrowsAreNeverReleased ==
    AllHeard =>
        \A key \in Keys : Known(key) /\ key[2] =>
            /\ key \in down => Reported(key) \in heard
            /\ Reported(key) \in heard /\ key \notin down =>
                    Reported(key) + ReleaseBit \in heard

\* A listener to the mouse that follows its events knows the buttons and the
\* last movement, negative and zero coordinates included: presses and releases
\* of a button alternate, though packets repeat the state of all buttons.
MouseIsReported == told = hand

\* Listeners know the state of both devices, as far as the events tell it.
InputIsReported == KeysAreReported /\ ArrowsAreNeverReleased /\ MouseIsReported
=============================================================================
