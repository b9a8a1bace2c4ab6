------------------------------ MODULE Keyboard ------------------------------
(***************************************************************************)
(* The way of a key: the keyboard and its controller, the interrupt        *)
(* handler of src/src/keyboard.c, the interrupt queue, ckMain's loop, the  *)
(* assembly of scan codes in src/src/keys.c and the call that hands the    *)
(* key to the terminal; and the LED command, which reads the same port for *)
(* its acknowledgements.                                                   *)
(*                                                                         *)
(* The keyboard and its controller are external.  What the user does with  *)
(* the keys is kept beside the kernel's state, so that the two can be      *)
(* compared: held, locked, owed.                                           *)
(***************************************************************************)
EXTENDS CircularQueue, FiniteSets

CONSTANTS
    Keys,       \* the keys the user has
    QueueSize,  \* the size of IntQueueBuf
    AckTries,   \* ACK_TRY_COUNT
    MaxEvents,  \* bound: how often keys are pressed or released
    MaxSent     \* bound: the bytes they send

ASSUME BoundsAssumption ==
    QueueSize \in Nat \ {0} /\ AckTries \in Nat \ {0} /\ MaxEvents \in Nat /\ MaxSent \in Nat

ACK == 250       \* KEYBOARD_ACK
LED == 237       \* KEYBOARD_COMMAND_LED
None == 256      \* no byte
FLAG == 16777216 \* 1 << 24, INTERRUPT_QUEUE_FLAG_KEYBOARD

VARIABLES
    wire,      \* the bytes the controller will present at KEYBOARD_PORT_OUTPUT
    port,      \* the last byte read there: what a read of an empty buffer returns
    input,     \* the controller's input buffer, None when it is taken
    working,   \* the byte the keyboard works on
    expects,   \* the keyboard was sent LED and waits for the lights
    lights,    \* the LEDs that are on
    queue,     \* g_InterruptQueue
    prefix,    \* bExternCode, bPause and SkipForPause of csAssembleScanCodeToKeyCode
    pushed,    \* the codes of g_KeyTable whose bPushedKey is set
    locks,     \* which of bNumLock, bCapsLock, bScrollLock are set
    shift,     \* g_Keyboard.bShift
    update,    \* how far csKeyboardUpdateLED_internal is: "no", "begin", "ack", "send", "ack lights"
    tries,     \* its i
    failed,    \* an update returned false
    hasty,     \* a wait for the controller gave up, and the byte there was written over
    overrun,   \* a scan code came to a full queue
    drained,   \* a scan code was read by a try for an ACK, whose words ckMain drops
    events,    \* how often keys were pressed or released
    sent,      \* how many bytes the keys have sent
    held,      \* the keys that are down
    locked,    \* the locks as the user set them
    owed,      \* what the terminal has still to be told
    astray     \* the terminal was told something else

device == <<wire, port, input, working, expects, lights>>
driver == <<update, tries, failed, hasty>>
state == <<prefix, pushed, locks, shift>>
losses == <<overrun, drained>>
user == <<events, sent, held, locked>>
vars == <<device, queue, driver, state, losses, user, owed, astray>>

-----------------------------------------------------------------------------
(* Keys. *)

\* What the keyboard sends for a key that is pressed; Pause sends its release along.
Scan == [one |-> <<2>>, a |-> <<30>>, lshift |-> <<42>>, rshift |-> <<54>>, caps |-> <<58>>, num |-> <<69>>,
         scroll |-> <<70>>, home |-> <<71>>, del |-> <<224, 83>>, pause |-> <<225, 29, 69, 225, 157, 197>>]

ASSUME KeysAssumption == Keys \subseteq DOMAIN Scan

Released(k) == IF k = "pause" THEN <<>> ELSE [Scan[k] EXCEPT ![Len(Scan[k])] = @ + 128]

\* g_KeyTable: the code of each key
KeyCode == [one |-> 2, a |-> 30, lshift |-> 42, rshift |-> 54, caps |-> 58, num |-> 69, scroll |-> 70,
            home |-> 71, del |-> 144, pause |-> 145]

TableSize == 146

\* The key at a code, "none" where NormalKey is CASCII_NONE or the key is not modelled
KeyAt(c) == IF \E k \in DOMAIN KeyCode : KeyCode[k] = c
            THEN CHOOSE k \in DOMAIN KeyCode : KeyCode[k] = c ELSE "none"

LockKeys == {"caps", "num", "scroll"}

ShiftKeys == {"lshift", "rshift"}

Toggle(set, x) == IF x \in set THEN set \ {x} ELSE set \cup {x}

\* The byte that switches the lights on
LightCode ==
    (IF "caps" \in locks THEN 4 ELSE 0) + (IF "num" \in locks THEN 2 ELSE 0) + (IF "scroll" \in locks THEN 1 ELSE 0)

\* How the keyboard reads it
LightsOf(byte) ==
    {l \in LockKeys : (byte \div (CASE l = "caps" -> 4 [] l = "num" -> 2 [] l = "scroll" -> 1)) % 2 = 1}

\* Keys whose CombinedKey is not their NormalKey
TwoFaced == {"one", "a", "home"}

\* Mutant: Caps Lock wins over Shift.
Combined_CapsWins(k) ==
    /\ k \in TwoFaced
    /\ IF KeyCode[k] \in 71 .. 83 THEN "num" \in locks
       ELSE IF k = "a" THEN "caps" \in locks \/ shift
       ELSE shift

\* ckGetCasciiFromKeyCode: whether the CombinedKey is taken, and differs.
Combined(k) ==
    /\ k \in TwoFaced
    /\ IF KeyCode[k] \in 71 .. 83 THEN "num" \in locks
       ELSE IF k = "a" THEN IF "caps" \in locks THEN ~shift ELSE shift
       ELSE shift

-----------------------------------------------------------------------------
(* The user and the keyboard. *)

Init ==
    /\ wire = <<>> /\ port = ACK /\ input = None /\ working = None
    /\ expects = FALSE /\ lights = {"num"}
    /\ queue = New(QueueSize)
    /\ prefix = [extern |-> FALSE, skip |-> 0]
    /\ pushed = {} /\ locks = {"num"} /\ shift = FALSE
    /\ update = "no" /\ tries = 0 /\ failed = FALSE /\ hasty = FALSE
    /\ overrun = FALSE /\ drained = FALSE
    /\ events = 0 /\ sent = 0 /\ held = {} /\ locked = {"num"}
    /\ owed = <<>> /\ astray = FALSE

\* What the user means by a key: a digit of the keypad under Num Lock, a capital
\* under either Caps Lock or Shift, the upper sign of the other keys under Shift.
Meant(k) ==
    LET shifted == held \cap ShiftKeys # {}
    IN  \/ k = "home" /\ "num" \in locked
        \/ k = "a" /\ shifted # ("caps" \in locked)
        \/ k = "one" /\ shifted

\* The user makes the keyboard send bytes.
User(bytes) ==
    /\ events < MaxEvents /\ events' = events + 1
    /\ sent + Len(bytes) <= MaxSent /\ sent' = sent + Len(bytes)
    /\ wire' = wire \o bytes

\* A key goes down, or repeats.  Pause sends its release along, which the kernel takes
\* for a second press.
Press(k) ==
    /\ User(Scan[k])
    /\ held' = IF k = "pause" THEN held ELSE held \cup {k}
    /\ owed' = owed \o [i \in 1 .. IF k = "pause" THEN 2 ELSE 1 |-> <<k, Meant(k)>>]
    /\ UNCHANGED <<port, input, working, expects, lights, queue, driver, state, losses, locked, astray>>

Release(k) ==
    /\ User(Released(k))
    /\ k \in held /\ held' = held \ {k}
    /\ locked' = IF k \in LockKeys THEN Toggle(locked, k) ELSE locked
    /\ UNCHANGED <<port, input, working, expects, lights, queue, driver, state, losses, owed, astray>>

\* The controller hands a byte to the keyboard, at the keyboard's leisure.
Forward ==
    /\ input # None /\ working = None
    /\ working' = input /\ input' = None
    /\ UNCHANGED <<wire, port, expects, lights, queue, driver, state, losses, user, owed, astray>>

\* The keyboard carries a byte out and acknowledges it.
Acknowledge ==
    /\ working # None /\ working' = None
    /\ wire' = Append(wire, ACK)
    /\ expects' = (working = LED)
    /\ lights' = IF working # LED /\ expects THEN LightsOf(working) ELSE lights
    /\ UNCHANGED <<port, input, queue, driver, state, losses, user, owed, astray>>

-----------------------------------------------------------------------------
(* The interrupt handler. *)

\* ck_KeyboardIntHandler, which the lock of an update holds back.
Interrupt ==
    /\ update = "no" /\ wire # <<>>
    /\ port' = Head(wire) /\ wire' = Tail(wire)
    /\ IF Head(wire) # ACK
         THEN /\ queue' = Put(queue, Head(wire) + FLAG)
              /\ overrun' = (overrun \/ ~HasRoom(queue))
         ELSE UNCHANGED <<queue, overrun>>
    /\ UNCHANGED <<input, working, expects, lights, driver, state, drained, user, owed, astray>>

-----------------------------------------------------------------------------
(* ckMain's loop, ckOnKeyboardInterrupt and the assembly of scan codes. *)

\* csGetKeyCodeFromScanCode, without the flag of a release
CodeOf(scan, extern) == (scan % 128) + IF extern THEN 89 - 28 ELSE 0

\* Whether csAssembleScanCodeToKeyCode completes a code with the byte.
Assembles(byte) == prefix.skip = 1 \/ (prefix.skip = 0 /\ (prefix.extern \/ byte \notin {224, 225}))

NextPrefix(byte) ==
    IF prefix.skip > 0 THEN [prefix EXCEPT !.skip = @ - 1]
    ELSE IF prefix.extern THEN [prefix EXCEPT !.extern = FALSE]
    ELSE IF byte = 225 THEN [prefix EXCEPT !.skip = 2]
    ELSE IF byte = 224 THEN [prefix EXCEPT !.extern = TRUE]
    ELSE prefix

\* The terminal is told of a key: ckTerminalOnInput.
Tell(x) ==
    IF owed # <<>> /\ Head(owed) = x
    THEN owed' = Tail(owed) /\ UNCHANGED astray
    ELSE astray' = TRUE /\ UNCHANGED owed

\* Mutant: only the left Shift key counts.
ShiftAfter_Left(k, down) == IF k \in ShiftKeys THEN down ELSE shift

\* bShift after key k, from bPushedKey of both Shift keys
ShiftAfter(k, down) ==
    IF k \in ShiftKeys THEN down \/ \E s \in ShiftKeys \ {k} : KeyCode[s] \in pushed ELSE shift

\* ckOnKeyboardInterrupt for a byte that completes code c.
OnKey(c, down) ==
    LET k == KeyAt(c)
    IN  /\ pushed' = IF down THEN pushed \cup {c} ELSE pushed \ {c}
        /\ shift' = ShiftAfter(k, down)
        /\ IF k \in LockKeys /\ ~down
             THEN locks' = Toggle(locks, k) /\ update' = "begin"
             ELSE UNCHANGED <<locks, update>>
        /\ IF k # "none" /\ down THEN Tell(<<k, Combined(k)>>) ELSE UNCHANGED <<owed, astray>>

\* Mutant: the word is read but not removed.
Taken_Peek == queue

Taken == Remove(queue)

\* One turn of the loop: the oldest word, which is dropped if it has no flag.
Handle ==
    LET byte == Oldest(queue) % FLAG
    IN  /\ update = "no" /\ ~queue.empty
        /\ queue' = Taken
        /\ IF Oldest(queue) < FLAG
             THEN UNCHANGED <<state, update, owed, astray>>
             ELSE /\ prefix' = NextPrefix(byte)
                  /\ IF ~Assembles(byte) THEN UNCHANGED <<pushed, locks, shift, update, owed, astray>>
                     ELSE IF prefix.skip > 0 THEN OnKey(KeyCode["pause"], TRUE)
                     ELSE OnKey(CodeOf(byte, prefix.extern), byte < 128)
        /\ UNCHANGED <<device, tries, failed, hasty, losses, user>>

-----------------------------------------------------------------------------
(* csKeyboardUpdateLED_internal, with the interrupts locked. *)

\* A byte goes out: when the controller has taken the one before, or over it when the wait
\* of ckKeyboardWaitForInput has come to its end.
Send(from, byte, to) ==
    /\ update = from
    /\ input' = byte /\ hasty' = (hasty \/ input # None)
    /\ update' = to /\ tries' = 0
    /\ UNCHANGED <<wire, port, working, expects, lights, queue, failed, state, losses, user, owed, astray>>

Begin == Send("begin", LED, "ack")

SendLights == Send("send", LightCode, "ack lights")

\* One try of ckKeyboardWaitForACKAndPutQueue.  A try that finds the buffer empty to
\* the end reads the port all the same.
Poll ==
    LET byte == IF wire = <<>> THEN port ELSE Head(wire)
    IN  /\ update \in {"ack", "ack lights"}
        /\ port' = byte /\ wire' = IF wire = <<>> THEN wire ELSE Tail(wire)
        /\ IF byte = ACK
             THEN /\ update' = IF update = "ack" THEN "send" ELSE "no"
                  /\ UNCHANGED <<queue, tries, failed, drained>>
             ELSE /\ queue' = Put(queue, byte)
                  /\ drained' = (drained \/ wire # <<>>)
                  /\ tries' = tries + 1
                  /\ update' = IF tries' = AckTries THEN "no" ELSE update
                  /\ failed' = (failed \/ tries' = AckTries)
        /\ UNCHANGED <<input, working, expects, lights, hasty, state, overrun, user, owed, astray>>

Next ==
    \/ \E k \in Keys : Press(k) \/ Release(k)
    \/ Forward \/ Acknowledge
    \/ Interrupt \/ Handle
    \/ Begin \/ SendLights \/ Poll

Spec == Init /\ [][Next]_vars

\* The controller and the keyboard answer in the end, a pending interrupt is taken,
\* and ckMain, which never waits, goes on.
FairSpec ==
    /\ Spec
    /\ WF_vars(Forward) /\ WF_vars(Acknowledge) /\ WF_vars(Interrupt)
    /\ WF_vars(Handle) /\ WF_vars(Begin \/ SendLights \/ Poll)

-----------------------------------------------------------------------------
(* Properties. *)

\* Nothing is on its way.
Quiet == wire = <<>> /\ input = None /\ working = None /\ queue.empty /\ update = "no"

\* The terminal is told every key the user pressed, in order and with the modifiers of
\* that moment, however late the main loop gets to it (keys.c:51), with two exceptions: a
\* scan code that comes to a full queue is gone (keyboard.c:157), and so is one that a
\* try for an ACK reads (keyboard.c:126), which ckMain drops because it has no flag
\* (ckMain.c:137).
TypedText == ~overrun /\ ~drained => ~astray /\ (Quiet => owed = <<>>)

\* Once everything is handled the kernel's view of the keys and locks is the
\* keyboard's (keys.c:53, 61), with the same two exceptions.  Unless an update or a wait
\* gave up the lights show the locks, although a stale or late ACK may have been taken
\* for the one awaited (keyboard.c:75, 80).  No key is pressed that g_KeyTable has no
\* place for.
StateFollows ==
    /\ ~overrun /\ ~drained /\ Quiet =>
        /\ shift = (held \cap ShiftKeys # {})
        /\ locks = locked
        /\ pushed \ {KeyCode["pause"]} = {KeyCode[k] : k \in held}
    /\ ~failed /\ ~hasty /\ Quiet => lights = locks
    /\ pushed \subseteq 0 .. TableSize - 1

\* Every key pressed gets to the terminal, or a scan code was lost at a full queue or to
\* a try for an ACK: no update holds the interrupts for ever (keyboard.c:112).
Delivered == (owed # <<>>) ~> (owed = <<>> \/ overrun \/ drained)
=============================================================================
