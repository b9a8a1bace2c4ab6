------------------------ MODULE TerminalInputProofs ------------------------
(***************************************************************************)
(* The safety of the terminal's input, for every size of its buffers and   *)
(* every number of keys and calls.  Three inductive invariants build on    *)
(* each other: who is inside s_TermMutex and what each call has still to   *)
(* enter; the keys that wait in s_HitKeyQueue and their event; the lines   *)
(* in s_InputBuffer and theirs.                                            *)
(***************************************************************************)
EXTENDS TerminalInput, QueueProofs, WellFoundedInduction

-----------------------------------------------------------------------------
(* The calls. *)

\* What a task that has called o may have still to enter.
Remaining(o) ==
    CASE o = "GetLine" \/ o = "GetChar" -> {<<"status", "line", "body">>, <<"line", "body">>, <<"body">>}
      [] o = "Getch" -> {<<"hit", "body">>, <<"body">>}
      [] o = "none" -> {<<>>}
      [] OTHER -> {<<"body">>}

Calls == [main |-> {"OnInput"}, reader |-> ReaderCalls, printer |-> {"Print"}]

Parts == {"status", "line", "hit", "body"}

CallsInv ==
    /\ mutex \in {0, 1} /\ inside \subseteq Tasks
    /\ op \in [Tasks -> ReaderCalls \cup {"OnInput", "Print", "none"}]
    /\ waits \in [Tasks -> Seq(Parts)]
    /\ \A t, u \in inside : t = u /\ mutex = 1
    /\ \A t \in Tasks : op[t] \in Calls[t] \cup {"none"} /\ waits[t] \in Remaining(op[t])
    /\ \A t \in inside : waits[t] # <<>> /\ Stage(t) \in {"status", "body"}

\* The lists of parts, taken apart.
LEMMA OnePart ==
    ASSUME NEW a \in Parts
    PROVE  <<a>> \in Seq(Parts) /\ Head(<<a>>) = a /\ Tail(<<a>>) = <<>> /\ Len(<<a>>) = 1
OBVIOUS

\* Behind the first of two parts is the second.
LEMMA TwoParts ==
    ASSUME NEW a \in Parts, NEW b \in Parts
    PROVE  /\ <<a, b>> \in Seq(Parts) /\ Head(<<a, b>>) = a /\ Tail(<<a, b>>) = <<b>> /\ Len(<<a, b>>) = 2
           /\ <<a, b>> # <<b>>
OBVIOUS

\* Of three parts, whatever is dropped, the rest stays in order.
LEMMA ThreeParts ==
    ASSUME NEW a \in Parts, NEW b \in Parts, NEW c \in Parts
    PROVE  /\ <<a, b, c>> \in Seq(Parts) /\ Head(<<a, b, c>>) = a /\ Tail(<<a, b, c>>) = <<b, c>>
           /\ Len(<<a, b, c>>) = 3 /\ <<a, b, c>> # <<c>> /\ <<a, b, c>> # <<b, c>>
OBVIOUS

\* The parts of a call in order: the first that is left, and what is left behind it.
LEMMA FirstPart ==
    ASSUME NEW o, NEW w \in Remaining(o), w # <<>>
    PROVE  /\ w \in Seq(Parts) /\ Tail(w) \in Seq(Parts)
           /\ Head(w) = "line" => o \in {"GetLine", "GetChar"} /\ Tail(w) = <<"body">>
           /\ Head(w) = "hit" => o = "Getch" /\ Tail(w) = <<"body">>
           /\ Head(w) = "status" => o \in {"GetLine", "GetChar"} /\ Tail(w) = <<"line", "body">>
           /\ Head(w) = "body" <=> w = <<"body">>
           /\ Len(w) = 1 <=> w = <<"body">>
           /\ Len(w) = 1 => Tail(w) = <<>>
           /\ Len(w) # 1 => Tail(w) \in Remaining(o) /\ Tail(w) # <<>>
<1>1. {"status", "line", "hit", "body"} \subseteq Parts
  BY DEF Parts
<1>2. CASE w = <<"body">>
  BY <1>1, <1>2, OnePart
<1>3. CASE w = <<"line", "body">> /\ o \in {"GetLine", "GetChar"}
  BY <1>1, <1>3, OnePart, TwoParts DEF Remaining
<1>4. CASE w = <<"hit", "body">> /\ o = "Getch"
  BY <1>1, <1>4, OnePart, TwoParts DEF Remaining
<1>5. CASE w = <<"status", "line", "body">> /\ o \in {"GetLine", "GetChar"}
  BY <1>1, <1>5, OnePart, TwoParts, ThreeParts DEF Remaining
<1>6. QED BY <1>2, <1>3, <1>4, <1>5 DEF Remaining

\* A call begins with all of its parts.
LEMMA CallKeeps ==
    ASSUME CallsInv, NEW t \in Tasks, NEW o \in Calls[t], Call(t, o)
    PROVE  CallsInv'
<1>1. o # "none" /\ Stages(o) \in Remaining(o) /\ Stages(o) \in Seq(Parts)
  <2>1. {"status", "line", "hit", "body"} \subseteq Parts
    BY DEF Parts
  <2>2. o # "none"
    BY DEF Calls, Tasks, ReaderCalls
  <2>3. Stages(o) \in Seq(Parts)
    BY <2>1, OnePart, TwoParts, ThreeParts DEF Stages
  <2>4. Stages(o) \in Remaining(o)
    BY <2>2 DEF Stages, Remaining
  <2>5. QED BY <2>2, <2>3, <2>4
<1>2. o \in ReaderCalls \cup {"OnInput", "Print", "none"}
  BY DEF Calls, Tasks
<1>3. t \notin inside
  BY DEF CallsInv, Call, Remaining
<1>4. \A u \in Tasks : op'[u] = (IF u = t THEN o ELSE op[u]) /\ waits'[u] = (IF u = t THEN Stages(o) ELSE waits[u])
  BY DEF CallsInv, Call
<1>5. op' \in [Tasks -> ReaderCalls \cup {"OnInput", "Print", "none"}] /\ waits' \in [Tasks -> Seq(Parts)]
  BY <1>1, <1>2 DEF CallsInv, Call
<1>6. UNCHANGED <<mutex, inside>>
  BY DEF Call
<1>7. \A u \in Tasks : op'[u] \in Calls[u] \cup {"none"} /\ waits'[u] \in Remaining(op'[u])
  BY <1>1, <1>4 DEF CallsInv
<1>8. \A u \in inside : waits'[u] # <<>> /\ Head(waits'[u]) \in {"status", "body"}
  BY <1>3, <1>4 DEF CallsInv, Stage
<1>9. QED BY <1>5, <1>6, <1>7, <1>8 DEF CallsInv, Stage

\* One task enters the mutex when none is inside.
LEMMA EnterMutexKeeps ==
    ASSUME CallsInv, NEW t \in Tasks, EnterMutex(t)
    PROVE  CallsInv'
<1>1. inside = {} /\ inside' = {t} /\ mutex' = 1 /\ UNCHANGED <<op, waits>>
  BY DEF CallsInv, EnterMutex, Enterable
<1>2. waits[t] # <<>> /\ Stage(t) \in {"status", "body"}
  BY DEF EnterMutex
<1>3. QED BY <1>1, <1>2 DEF CallsInv, Stage

\* An event is entered by the reader only, and then its call has its last part left.
LEMMA EnterEventKeeps ==
    ASSUME CallsInv, NEW t \in Tasks, EnterEvent(t)
    PROVE  /\ CallsInv' /\ t = "reader" /\ waits'["reader"] = <<"body">> /\ waits["reader"] # <<"body">>
           /\ Stage("reader") = "line" => op["reader"] \in {"GetLine", "GetChar"}
           /\ Stage("reader") = "hit" => op["reader"] = "Getch"
<1>1. /\ waits[t] \in Remaining(op[t]) /\ waits[t] # <<>> /\ Head(waits[t]) \in {"line", "hit"}
      /\ t \notin inside /\ waits' = [waits EXCEPT ![t] = Tail(@)]
      /\ UNCHANGED <<mutex, op, inside>>
  BY DEF CallsInv, EnterEvent, Stage
<1>2. /\ Tail(waits[t]) = <<"body">> /\ <<"body">> \in Remaining(op[t]) /\ waits[t] # <<"body">>
      /\ Head(waits[t]) = "line" => op[t] \in {"GetLine", "GetChar"}
      /\ Head(waits[t]) = "hit" => op[t] = "Getch"
  <2>1. /\ Head(waits[t]) = "line" => op[t] \in {"GetLine", "GetChar"} /\ Tail(waits[t]) = <<"body">>
        /\ Head(waits[t]) = "hit" => op[t] = "Getch" /\ Tail(waits[t]) = <<"body">>
        /\ Head(waits[t]) = "body" <=> waits[t] = <<"body">>
    BY <1>1, FirstPart
  <2>2. QED BY <1>1, <2>1 DEF Remaining
<1>3. t = "reader"
  BY <1>1, <1>2 DEF CallsInv, Calls, Tasks
<1>4. \A u \in Tasks : waits'[u] = IF u = t THEN <<"body">> ELSE waits[u]
  BY <1>1, <1>2 DEF CallsInv
<1>5. waits' \in [Tasks -> Seq(Parts)]
  BY <1>1, <1>2, OnePart DEF CallsInv, Parts
<1>6. CallsInv'
  BY <1>1, <1>2, <1>4, <1>5 DEF CallsInv, Stage
<1>7. QED BY <1>2, <1>3, <1>4, <1>6 DEF Stage

\* A task that leaves the mutex was the only one inside.
LEMMA LeaveKeeps ==
    ASSUME CallsInv, NEW t \in Tasks, Leave(t)
    PROVE  /\ CallsInv'
           /\ \A u \in Tasks \ {t} : op'[u] = op[u] /\ waits'[u] = waits[u]
           /\ waits[t] = <<"body">> => op'[t] = "none" /\ waits'[t] = <<>>
           /\ waits[t] # <<"body">> => op'[t] = op[t] /\ waits'[t] = <<"line", "body">>
<1>1. /\ waits[t] \in Remaining(op[t]) /\ waits[t] # <<>> /\ Head(waits[t]) \in {"status", "body"}
      /\ inside = {t} /\ mutex' = 0 /\ inside' = inside \ {t}
      /\ waits' = [waits EXCEPT ![t] = Tail(@)]
      /\ op' = [op EXCEPT ![t] = IF Len(waits[t]) = 1 THEN "none" ELSE @]
  BY DEF CallsInv, Leave, Stage
<1>2. /\ Tail(waits[t]) \in Seq(Parts)
      /\ Head(waits[t]) = "status" => Tail(waits[t]) = <<"line", "body">>
      /\ Head(waits[t]) = "body" <=> waits[t] = <<"body">>
      /\ Len(waits[t]) = 1 <=> waits[t] = <<"body">>
      /\ Len(waits[t]) = 1 => Tail(waits[t]) = <<>>
      /\ Len(waits[t]) # 1 => Tail(waits[t]) \in Remaining(op[t])
  BY <1>1, FirstPart
<1>3. /\ op' \in [Tasks -> ReaderCalls \cup {"OnInput", "Print", "none"}]
      /\ waits' \in [Tasks -> Seq(Parts)]
  BY <1>1, <1>2 DEF CallsInv
<1>4. /\ waits'[t] = Tail(waits[t]) /\ op'[t] = IF Len(waits[t]) = 1 THEN "none" ELSE op[t]
      /\ \A u \in Tasks \ {t} : op'[u] = op[u] /\ waits'[u] = waits[u]
  BY <1>1 DEF CallsInv
<1>5. \A u \in Tasks : op'[u] \in Calls[u] \cup {"none"} /\ waits'[u] \in Remaining(op'[u])
  <2>1. op'[t] \in Calls[t] \cup {"none"} /\ waits'[t] \in Remaining(op'[t])
    BY <1>1, <1>2, <1>4 DEF CallsInv, Remaining
  <2>2. QED BY <1>4, <2>1 DEF CallsInv
<1>6. CallsInv'
  BY <1>1, <1>3, <1>5 DEF CallsInv
<1>7. QED BY <1>1, <1>2, <1>4, <1>6

\* At the start no call is running.
LEMMA CallsInitial == Init => CallsInv
<1>1. SUFFICES ASSUME Init PROVE CallsInv
  OBVIOUS
<1>2. <<>> \in Seq(Parts)
  OBVIOUS
<1>3. op = [t \in Tasks |-> "none"] /\ waits = [t \in Tasks |-> <<>>] /\ inside = {} /\ mutex = 0
  BY <1>1 DEF Init
<1>4. QED BY <1>2, <1>3 DEF CallsInv, Remaining

\* Whoever does what, the calls stay as they are made.
LEMMA CallsStep ==
    ASSUME CallsInv, [Next]_vars
    PROVE  CallsInv'
<1>1. CASE UNCHANGED vars
  BY <1>1 DEF CallsInv, Stage, vars
<1>2. ASSUME NEW k \in Keys, Press(k) PROVE CallsInv'
  BY <1>2, CallKeeps DEF Press, Calls, Tasks
<1>3. ASSUME NEW o \in ReaderCalls, Ask("reader", o, MaxCalls) PROVE CallsInv'
  BY <1>3, CallKeeps DEF Ask, Calls, Tasks
<1>4. CASE Ask("printer", "Print", MaxPrints)
  BY <1>4, CallKeeps DEF Ask, Calls, Tasks
<1>5. ASSUME NEW t \in Tasks, Progress(t) PROVE CallsInv'
  <2>1. CASE EnterMutex(t)
    BY <2>1, EnterMutexKeeps
  <2>2. CASE EnterEvent(t)
    BY <2>2, EnterEventKeeps
  <2>3. CASE Leave(t)
    BY <2>3, LeaveKeeps
  <2>4. QED BY <1>5, <2>1, <2>2, <2>3 DEF Progress, MainBody, SetStatus, ReaderBody, PrinterBody
<1>6. QED BY <1>1, <1>2, <1>3, <1>4, <1>5 DEF Next

-----------------------------------------------------------------------------
(* The keys in s_HitKeyQueue. *)

Codes == Keys \cup {Nul}

\* The event of the keys is right, but for a reader that has entered it and not yet
\* taken its key; if it is posted again meanwhile, another key lies behind that one.
HitsInv ==
    /\ IsRing(hits, Codes) /\ hits.size = HitSize
    /\ key \in Codes
    /\ HasEntered({"Getch"}) \/ (hitEvent = 0 <=> ~hits.empty)
    /\ HasEntered({"Getch"}) => ~hits.empty /\ (hitEvent = 0 => Length(hits) > 1)

\* An empty queue of hits has no element.
LEMMA EmptyHits ==
    ASSUME ClearHits
    PROVE  IsRing(hits, Codes)' /\ hits'.size = HitSize /\ hits'.empty /\ hitEvent' = 1
<1>1. HitSize \in Nat \ {0}
  BY SizesAssumption
<1>2. IsRing(New(HitSize), Codes)
  BY <1>1, NewRing DEF Codes, Nul
<1>3. QED BY <1>2 DEF ClearHits, New, IsRing

\* At the start no key was hit and the event is not posted.
LEMMA HitsInitial == Init => HitsInv
<1>1. SUFFICES ASSUME Init PROVE HitsInv
  OBVIOUS
<1>2. HitSize \in Nat \ {0}
  BY SizesAssumption
<1>3. IsRing(New(HitSize), Codes)
  BY <1>2, NewRing DEF Codes, Nul
<1>4. hits = New(HitSize) /\ hitEvent = 1 /\ key = Nul /\ op["reader"] = "none"
  BY <1>1 DEF Init, Tasks
<1>5. QED BY <1>3, <1>4 DEF HitsInv, New, HasEntered, Codes

\* A step that is not about the keys.
LEMMA HitsCarried ==
    ASSUME HitsInv, UNCHANGED <<hits, hitEvent>>, key' \in Codes,
           HasEntered({"Getch"})' = HasEntered({"Getch"})
    PROVE  HitsInv'
BY DEF HitsInv

\* A key that is put, or dropped because the queue is full, leaves more than one if
\* there was one.
LEMMA HitsPut ==
    ASSUME HitsInv, hits' = Put(hits, key), hitEvent' = 0, UNCHANGED key,
           HasEntered({"Getch"})' = HasEntered({"Getch"})
    PROVE  HitsInv'
<1>1. IsRing(hits, Codes) /\ key \in Codes /\ hits.size = HitSize /\ HitSize > 1
  BY SizesAssumption DEF HitsInv
<1>2. Length(hits) \in 0 .. HitSize /\ ((Length(hits) = 0) <=> hits.empty)
  BY <1>1, LengthRange
<1>3. CASE HasRoom(hits)
  <2>1. IsRing(hits', Codes) /\ Contents(hits') = Append(Contents(hits), key)
    BY <1>1, <1>3, PutAppends
  <2>2. Contents(hits) \in Seq(Codes) /\ Len(Contents(hits)) = Length(hits)
    BY <1>1, ContentsSeq
  <2>3. Len(Contents(hits')) = Length(hits) + 1
    BY <2>1, <2>2, <1>1
  <2>4. Len(Contents(hits')) = Length(hits')
    BY <2>1, ContentsSeq
  <2>5. (Length(hits') = 0) <=> hits'.empty
    BY <2>1, LengthRange
  <2>6. hits'.size = HitSize
    BY <1>1, <1>3 DEF Put, IsRing
  <2>7. QED BY <1>1, <1>2, <2>1, <2>3, <2>4, <2>5, <2>6 DEF HitsInv
<1>4. CASE ~HasRoom(hits)
  <2>1. hits' = hits
    BY <1>4 DEF Put
  <2>2. Length(hits) = HitSize
    <3>1. ~(Len(Contents(hits)) < HitSize) /\ Len(Contents(hits)) = Length(hits)
      BY <1>1, <1>4, RoomExact, ContentsSeq
    <3>2. QED BY <1>1, <1>2, <3>1, SizesAssumption
  <2>3. QED BY <1>1, <1>2, <2>1, <2>2, SizesAssumption DEF HitsInv
<1>5. QED BY <1>3, <1>4

\* A reader that has entered the event takes a key, and posts it for the next one.
LEMMA HitsTaken ==
    ASSUME HitsInv, HasEntered({"Getch"}), Getch, UNCHANGED key, ~HasEntered({"Getch"})'
    PROVE  HitsInv' /\ ~fault'
<1>1. /\ IsRing(hits, Codes) /\ hits.size = HitSize /\ ~hits.empty /\ key \in Codes
      /\ hitEvent = 0 => Length(hits) > 1
  BY DEF HitsInv
<1>2. IsRing(hits', Codes) /\ Contents(hits') = Tail(Contents(hits)) /\ Contents(hits) # <<>>
  BY <1>1, RemoveTakesOldest DEF Getch
<1>3. Contents(hits) \in Seq(Codes) /\ Len(Contents(hits)) = Length(hits) /\ Len(Contents(hits')) = Length(hits')
  BY <1>1, <1>2, ContentsSeq
<1>4. Length(hits') = Length(hits) - 1 /\ Length(hits) \in Nat
  BY <1>2, <1>3
<1>5. (Length(hits') = 0) <=> hits'.empty
  BY <1>2, LengthRange
<1>6. hits'.size = HitSize
  BY <1>1 DEF Getch, Remove, IsRing
<1>7. hitEvent' = (IF hits'.empty THEN hitEvent ELSE 0) /\ fault' = hits.empty
  BY DEF Getch
<1>8. QED BY <1>1, <1>2, <1>4, <1>5, <1>6, <1>7 DEF HitsInv

\* Clearing the queue of hits, its event with it, keeps the invariant.
LEMMA HitsCleared ==
    ASSUME HitsInv, ClearHits, UNCHANGED key, ~HasEntered({"Getch"})'
    PROVE  HitsInv'
BY EmptyHits DEF HitsInv

\* What the reader does with what it has entered: its call ends.
LEMMA ReaderReturns ==
    ASSUME CallsInv, ReaderBody
    PROVE  /\ op'["reader"] = "none" /\ UNCHANGED key
           /\ \A o : HasEntered(o) <=> op["reader"] \in o
           /\ \A o : "none" \notin o => ~HasEntered(o)'
<1>1. waits["reader"] = <<"body">> /\ Leave("reader") /\ "reader" \in Tasks
  BY DEF ReaderBody, Tasks
<1>2. op'["reader"] = "none"
  BY <1>1, LeaveKeeps
<1>3. QED BY <1>1, <1>2 DEF HasEntered, Leave

\* Every step keeps what the event says of the queue of hits.
LEMMA HitsStep ==
    ASSUME CallsInv, HitsInv, [Next]_vars
    PROVE  HitsInv'
<1> USE DEF Tasks
<1>1. CASE UNCHANGED vars
  BY <1>1, HitsCarried DEF vars, buffers, HasEntered, HitsInv
<1>2. ASSUME NEW k \in Keys, Press(k) PROVE HitsInv'
  BY <1>2, HitsCarried DEF Press, Call, buffers, HasEntered, CallsInv, Codes
<1>3. ASSUME NEW o \in ReaderCalls, Ask("reader", o, MaxCalls) PROVE HitsInv'
  <2>1. op["reader"] = "none" /\ op'["reader"] = o /\ waits'["reader"] = Stages(o)
        /\ UNCHANGED <<hits, hitEvent, key>>
    BY <1>3 DEF Ask, Call, CallsInv, buffers
  <2>2. Stages("Getch") # <<"body">>
    BY TwoParts DEF Stages, Parts
  <2>3. QED BY <2>1, <2>2, HitsCarried DEF HasEntered, HitsInv
<1>4. CASE Ask("printer", "Print", MaxPrints)
  BY <1>4, HitsCarried DEF Ask, Call, buffers, HasEntered, CallsInv, HitsInv
<1>5. ASSUME NEW t \in Tasks, EnterMutex(t) PROVE HitsInv'
  BY <1>5, HitsCarried DEF EnterMutex, buffers, HasEntered, HitsInv
<1>6. ASSUME NEW t \in Tasks, EnterEvent(t) PROVE HitsInv'
  <2>1. /\ t = "reader" /\ waits'["reader"] = <<"body">> /\ waits["reader"] # <<"body">>
        /\ Stage("reader") = "line" => op["reader"] \in {"GetLine", "GetChar"}
        /\ Stage("reader") = "hit" => op["reader"] = "Getch"
    BY <1>6, EnterEventKeeps
  <2>2. ~HasEntered({"Getch"}) /\ UNCHANGED <<hits, op, key>>
    BY <1>6, <2>1 DEF HasEntered, EnterEvent, buffers
  <2>3. CASE Stage("reader") = "line"
    BY <1>6, <2>1, <2>2, <2>3, HitsCarried DEF EnterEvent, HasEntered, HitsInv
  <2>4. CASE Stage("reader") = "hit"
    <3>1. hitEvent = 0 /\ hitEvent' = 1
      BY <1>6, <2>1, <2>4 DEF EnterEvent, Enterable
    <3>2. HasEntered({"Getch"})'
      BY <2>1, <2>2, <2>4 DEF HasEntered
    <3>3. QED BY <2>2, <3>1, <3>2 DEF HitsInv
  <2>5. QED BY <1>6, <2>1, <2>3, <2>4 DEF EnterEvent
<1>7. CASE MainBody
  <2>1. hits' = Put(hits, key) /\ hitEvent' = 0 /\ UNCHANGED key
    BY <1>7 DEF MainBody, OnInput, Leave
  <2>2. HasEntered({"Getch"})' = HasEntered({"Getch"})
    BY <1>7, LeaveKeeps DEF MainBody, HasEntered
  <2>3. QED BY <2>1, <2>2, HitsPut
<1>8. CASE SetStatus
  <2>1. UNCHANGED <<hits, hitEvent, key>>
    BY <1>8 DEF SetStatus, Leave
  <2>2. waits["reader"] \in Remaining(op["reader"]) /\ waits["reader"] # <<>> /\ Head(waits["reader"]) = "status"
    BY <1>8 DEF SetStatus, CallsInv, Stage
  <2>3. waits["reader"] # <<"body">> /\ op["reader"] \in {"GetLine", "GetChar"}
    BY <2>2, FirstPart
  <2>4. op'["reader"] = op["reader"]
    BY <1>8, <2>3, LeaveKeeps DEF SetStatus
  <2>5. QED BY <2>1, <2>3, <2>4, HitsCarried DEF HasEntered, HitsInv
<1>9. CASE ReaderBody
  <2>1. /\ UNCHANGED key
        /\ HasEntered({"Getch"}) <=> op["reader"] = "Getch"
        /\ ~HasEntered({"Getch"})'
    BY <1>9, ReaderReturns
  <2>2. CASE op["reader"] = "Getch"
    <3>1. Getch
      BY <1>9, <2>2 DEF ReaderBody
    <3>2. QED BY <2>1, <2>2, <3>1, HitsTaken
  <2>3. CASE op["reader"] # "Getch" /\ ClearHits
    BY <2>1, <2>3, HitsCleared
  <2>4. CASE op["reader"] # "Getch" /\ UNCHANGED <<hits, hitEvent>>
    BY <2>1, <2>4, HitsCarried DEF HitsInv
  <2>5. QED BY <1>9, <2>2, <2>3, <2>4 DEF ReaderBody
<1>10. CASE PrinterBody
  <2>1. UNCHANGED <<hits, hitEvent, key>>
    BY <1>10 DEF PrinterBody, buffers, Leave
  <2>2. HasEntered({"Getch"})' = HasEntered({"Getch"})
    BY <1>10, LeaveKeeps DEF PrinterBody, HasEntered
  <2>3. QED BY <2>1, <2>2, HitsCarried DEF HitsInv
<1>11. QED BY <1>1, <1>2, <1>3, <1>4, <1>5, <1>6, <1>7, <1>8, <1>9, <1>10 DEF Next, Progress

-----------------------------------------------------------------------------
(* The lines in s_InputBuffer. *)

\* The reader has entered the event of a line.
Reading == HasEntered({"GetLine", "GetChar"})

Text == Chars \cup {NewLine}

\* The first n bytes of a buffer, as a sequence
Bytes(buf, n) == [i \in 1 .. n |-> buf[i - 1]]

InputType ==
    /\ input = [buf |-> input.buf, now |-> input.now]
    /\ input.buf \in [0 .. InputSize - 1 -> Nat]
    /\ input.now \in 0 .. InputSize

\* Until a line is taken in front of another the buffer holds what is due, which ends
\* with a line; and a reader that has entered the event finds a line, and one more
\* behind it if the event was posted again.
LinesDue ==
    /\ due = Bytes(input.buf, input.now)
    /\ \A i \in 0 .. input.now - 1 : input.buf[i] \in Text
    /\ input.now # 0 => input.buf[input.now - 1] = NewLine
    /\ Reading => /\ input.now # 0
                  /\ lineEvent = 0 => \E i \in 0 .. input.now - 2 : input.buf[i] = NewLine

LineEventRight == Reading \/ (lineEvent = 0 <=> input.now # 0)

InputInv ==
    /\ typing \in Seq(Chars) /\ Len(typing) <= LineSize
    /\ ~astray
    /\ fault => input.now > InputSize \/ spoilt
    /\ ~fault => InputType /\ (spoilt \/ (LineEventRight /\ LinesDue))

\* Characters are not the bytes that end a line or a string.
LEMMA CharCodes == Nul \notin Text /\ Chars \subseteq Nat /\ Text \subseteq Nat
BY CharsAssumption DEF Text, Nul, NewLine

\* What is copied of a sequence when there is room for n of its elements.
LEMMA Prefix ==
    ASSUME NEW S, NEW str \in Seq(S), NEW n \in Nat
    PROVE  LET line == SubSeq(str, 1, Min({Len(str), n}))
           IN  /\ line \in Seq(S)
               /\ Len(line) = (IF Len(str) <= n THEN Len(str) ELSE n)
               /\ Len(str) <= n => line = str
<1> DEFINE m == IF Len(str) <= n THEN Len(str) ELSE n
<1>1. Len(str) \in Nat /\ m \in Nat /\ m <= Len(str)
  OBVIOUS
<1>2. Min({Len(str), n}) = m
  <2>1. m \in {Len(str), n} /\ \A y \in {Len(str), n} : m <= y
    BY <1>1
  <2>2. Min({Len(str), n}) \in {Len(str), n} /\ \A y \in {Len(str), n} : Min({Len(str), n}) <= y
    BY <2>1 DEF Min
  <2>3. QED BY <1>1, <2>1, <2>2
<1>3. \A i \in 1 .. m : str[i] \in S
  BY <1>1
<1> HIDE DEF m
<1>4. /\ SubSeq(str, 1, m) \in Seq(S) /\ Len(SubSeq(str, 1, m)) = m
      /\ \A i \in 1 .. m : SubSeq(str, 1, m)[i] = str[i]
  BY <1>1, <1>3, SubSeqProperties
<1>5. Len(str) <= n => SubSeq(str, 1, m) = str
  <2>1. Len(str) <= n => m = Len(str)
    BY DEF m
  <2>2. QED BY <1>4, <2>1, SeqEqual
<1>6. QED BY <1>2, <1>4, <1>5 DEF m

\* A sequence stays one when its elements may be more.
LEMMA SeqOfMore ==
    ASSUME NEW S, NEW T, S \subseteq T, NEW str \in Seq(S)
    PROVE  str \in Seq(T)
<1>1. Len(str) \in Nat /\ \A i \in 1 .. Len(str) : str[i] \in T
  BY LenProperties
<1>2. [i \in 1 .. Len(str) |-> str[i]] \in Seq(T)
  BY <1>1, IsASeq
<1>3. str = [i \in 1 .. Len(str) |-> str[i]]
  BY LenProperties
<1>4. QED BY <1>2, <1>3

\* The first n bytes, as a sequence.
LEMMA BytesSeq ==
    ASSUME NEW buf, NEW n \in Nat, \A j \in 0 .. n - 1 : buf[j] \in Text
    PROVE  /\ Bytes(buf, n) \in Seq(Text) /\ Len(Bytes(buf, n)) = n
           /\ \A i \in 1 .. n : Bytes(buf, n)[i] = buf[i - 1]
<1>1. \A i \in 1 .. n : buf[i - 1] \in Text
  OBVIOUS
<1>2. Bytes(buf, n) \in Seq(Text)
  BY <1>1, IsASeq DEF Bytes
<1>3. QED BY <1>2, LenProperties DEF Bytes

\* A sequence stored in the buffer, from index m on.
LEMMA StoredBytes ==
    ASSUME NEW size \in Nat, NEW buf \in [0 .. size - 1 -> Nat], NEW m \in Nat,
           NEW str \in Seq(Nat), m + Len(str) <= size
    PROVE  /\ Stored(buf, m, str) \in [0 .. size - 1 -> Nat]
           /\ \A i \in 1 .. Len(str) : Stored(buf, m, str)[m + i - 1] = str[i]
           /\ \A j \in 0 .. size - 1 : (j < m \/ j >= m + Len(str)) => Stored(buf, m, str)[j] = buf[j]
<1>1. Len(str) \in Nat /\ \A i \in 1 .. Len(str) : str[i] \in Nat
  OBVIOUS
<1>2. Stored(buf, m, str) = [j \in 0 .. size - 1 |-> IF j \in m .. m + Len(str) - 1 THEN str[j - m + 1] ELSE buf[j]]
  BY DEF Stored
<1>3. \A j \in m .. m + Len(str) - 1 : j - m + 1 \in 1 .. Len(str)
  BY <1>1
<1>4. Stored(buf, m, str) \in [0 .. size - 1 -> Nat]
  BY <1>1, <1>2, <1>3
<1>5. \A i \in 1 .. Len(str) : m + i - 1 \in m .. m + Len(str) - 1 /\ m + i - 1 \in 0 .. size - 1 /\ (m + i - 1) - m + 1 = i
  BY <1>1
<1>6. \A i \in 1 .. Len(str) : Stored(buf, m, str)[m + i - 1] = str[i]
  BY <1>2, <1>5
<1>7. QED BY <1>1, <1>2, <1>4, <1>6

\* The first line ends where its new line is, in front of what is not due.
LEMMA FirstLineEnds ==
    ASSUME InputType, LinesDue, input.now # 0
    PROVE  /\ \E i \in DOMAIN input.buf : LineEnds(i)
           /\ \A i \in DOMAIN input.buf : LineEnds(i) =>
                 /\ i \in 0 .. input.now - 1
                 /\ \A j \in 0 .. i - 1 : input.buf[j] # NewLine
<1> DEFINE T == {j \in 0 .. input.now - 1 : input.buf[j] = NewLine}
<1>1. input.now \in Nat \ {0} /\ input.now <= InputSize /\ DOMAIN input.buf = 0 .. InputSize - 1 /\ InputSize \in Nat
  BY SizesAssumption DEF InputType
<1>2. input.now - 1 \in T
  BY <1>1 DEF LinesDue
<1>3. T \subseteq Nat /\ T # {}
  BY <1>1, <1>2
<1>4. \E i \in T : \A j \in T : ~(<<j, i>> \in OpToRel(<, Nat))
  BY <1>3, NatLessThanWellFounded, WFMin
<1>5. PICK i \in T : \A j \in T : ~(j < i)
  BY <1>3, <1>4 DEF OpToRel
<1>6. LineEnds(i)
  <2>1. i \in 0 .. input.now - 1 /\ input.buf[i] = NewLine
    BY <1>5
  <2>2. ASSUME NEW j \in 0 .. i - 1 PROVE input.buf[j] \notin {NewLine, Nul}
    <3>1. j \in 0 .. input.now - 1 /\ j < i
      BY <1>1, <2>1
    <3>2. input.buf[j] \in Text /\ input.buf[j] # Nul
      BY <3>1, CharCodes DEF LinesDue
    <3>3. input.buf[j] # NewLine
      BY <1>5, <3>1
    <3>4. QED BY <3>2, <3>3
  <2>3. QED BY <2>1, <2>2 DEF LineEnds
<1>7. \A k \in DOMAIN input.buf : LineEnds(k) => k \in 0 .. input.now - 1
  BY <1>1, <1>2 DEF LineEnds
<1>8. QED BY <1>1, <1>5, <1>6, <1>7 DEF LineEnds

\* A line stored behind what is due, with its new line.
LEMMA StoredLine ==
    ASSUME NEW buf \in [0 .. InputSize - 1 -> Nat], NEW now \in Nat, NEW line \in Seq(Text),
           now + Len(line) < InputSize, \A j \in 0 .. now - 1 : buf[j] \in Text
    PROVE  LET b == Stored(buf, now, Append(line, NewLine))
               end == now + Len(line)
           IN  /\ b \in [0 .. InputSize - 1 -> Nat]
               /\ \A j \in 0 .. now - 1 : b[j] = buf[j]
               /\ \A j \in 0 .. end : b[j] \in Text
               /\ b[end] = NewLine
               /\ Bytes(buf, now) \o line \o <<NewLine>> = Bytes(b, end + 1)
<1> DEFINE str == Append(line, NewLine)
           b == Stored(buf, now, str)
           len == Len(line)
           old == Bytes(buf, now)
<1>1. len \in Nat /\ line \in Seq(Text) /\ NewLine \in Text /\ Text \subseteq Nat /\ InputSize \in Nat
  BY CharCodes, SizesAssumption DEF Text
<1>2. /\ str \in Seq(Text) /\ Len(str) = len + 1 /\ str[len + 1] = NewLine
      /\ \A i \in 1 .. len : str[i] = line[i]
  BY <1>1, AppendProperties
<1>3. str \in Seq(Nat)
  BY <1>1, <1>2, SeqOfMore
<1>4. old \in Seq(Text) /\ Len(old) = now /\ \A i \in 1 .. now : old[i] = buf[i - 1]
  BY BytesSeq
<1> HIDE DEF str, len, old
<1>5. /\ b \in [0 .. InputSize - 1 -> Nat]
      /\ \A i \in 1 .. len + 1 : b[now + i - 1] = str[i]
      /\ \A j \in 0 .. InputSize - 1 : j < now => b[j] = buf[j]
  <2>1. now + Len(str) <= InputSize
    BY <1>1, <1>2 DEF len
  <2>2. /\ Stored(buf, now, str) \in [0 .. InputSize - 1 -> Nat]
        /\ \A i \in 1 .. Len(str) : Stored(buf, now, str)[now + i - 1] = str[i]
        /\ \A j \in 0 .. InputSize - 1 :
              (j < now \/ j >= now + Len(str)) => Stored(buf, now, str)[j] = buf[j]
    BY <1>1, <1>3, <2>1, StoredBytes
  <2>3. QED BY <1>2, <2>2
<1>6. now + len < InputSize
  BY DEF len
<1> HIDE DEF b
<1>7. \A j \in 0 .. now - 1 : b[j] = buf[j]
  BY <1>1, <1>5, <1>6
<1>8. b[now + len] = NewLine
  <2>1. len + 1 \in 1 .. len + 1 /\ now + (len + 1) - 1 = now + len
    BY <1>1
  <2>2. QED BY <1>2, <1>5, <2>1
<1>9. \A i \in 1 .. len : b[now + i - 1] = line[i] /\ line[i] \in Text
  BY <1>1, <1>2, <1>5 DEF len
<1>10. \A j \in 0 .. now + len : b[j] \in Text
  <2>1. ASSUME NEW j \in 0 .. now + len PROVE b[j] \in Text
    <3>1. CASE j < now
      BY <1>7, <3>1
    <3>2. CASE j >= now /\ j < now + len
      <4>1. j - now + 1 \in 1 .. len /\ now + (j - now + 1) - 1 = j
        BY <1>1, <3>2
      <4>2. QED BY <1>9, <4>1
    <3>3. CASE j = now + len
      BY <1>1, <1>8, <3>3
    <3>4. QED BY <1>1, <3>1, <3>2, <3>3
  <2>2. QED BY <2>1
<1>11. old \o line \o <<NewLine>> = Bytes(b, now + len + 1)
  <2>1. /\ old \o line \in Seq(Text) /\ Len(old \o line) = now + len
        /\ \A i \in 1 .. now + len : (old \o line)[i] = IF i <= now THEN old[i] ELSE line[i - now]
    BY <1>1, <1>4, ConcatProperties DEF len
  <2>2. /\ Append(old \o line, NewLine) \in Seq(Text) /\ Len(Append(old \o line, NewLine)) = now + len + 1
        /\ \A i \in 1 .. now + len : Append(old \o line, NewLine)[i] = (old \o line)[i]
        /\ Append(old \o line, NewLine)[now + len + 1] = NewLine
    <3>1. ASSUME NEW s \in Seq(Text)
          PROVE  /\ Append(s, NewLine) \in Seq(Text) /\ Len(Append(s, NewLine)) = Len(s) + 1
                 /\ \A i \in 1 .. Len(s) : Append(s, NewLine)[i] = s[i]
                 /\ Append(s, NewLine)[Len(s) + 1] = NewLine
      BY <1>1, AppendProperties
    <3>2. QED BY <2>1, <3>1
  <2>3. Append(old \o line, NewLine) = old \o line \o <<NewLine>>
    BY <1>1, <2>1, AppendIsConcat
  <2>4. /\ Bytes(b, now + len + 1) \in Seq(Text) /\ Len(Bytes(b, now + len + 1)) = now + len + 1
        /\ \A i \in 1 .. now + len + 1 : Bytes(b, now + len + 1)[i] = b[i - 1]
    <3>1. now + len + 1 \in Nat /\ \A j \in 0 .. (now + len + 1) - 1 : b[j] \in Text
      BY <1>1, <1>10
    <3>2. QED BY <3>1, BytesSeq
  <2>5. ASSUME NEW i \in 1 .. now + len + 1 PROVE Append(old \o line, NewLine)[i] = b[i - 1]
    <3>1. CASE i <= now
      <4>1. i \in 1 .. now /\ i \in 1 .. now + len /\ i - 1 \in 0 .. now - 1
        BY <1>1, <3>1
      <4>2. QED BY <1>4, <1>7, <2>1, <2>2, <3>1, <4>1
    <3>2. CASE i > now /\ i <= now + len
      <4>1. i - now \in 1 .. len /\ now + (i - now) - 1 = i - 1 /\ i \in 1 .. now + len /\ ~(i <= now)
        BY <1>1, <3>2
      <4>2. QED BY <1>9, <2>1, <2>2, <4>1
    <3>3. CASE i = now + len + 1
      <4>1. i - 1 = now + len
        BY <1>1, <3>3
      <4>2. QED BY <1>8, <2>2, <3>3, <4>1
    <3>4. i <= now \/ (i > now /\ i <= now + len) \/ i = now + len + 1
      BY <1>1
    <3>5. QED BY <3>1, <3>2, <3>3, <3>4
  <2>6. QED
    <3>1. \A i \in 1 .. now + len + 1 : Append(old \o line, NewLine)[i] = Bytes(b, now + len + 1)[i]
      BY <2>4, <2>5
    <3>2. QED BY <2>2, <2>3, <2>4, <3>1, SeqEqual
<1>12. QED BY <1>5, <1>7, <1>8, <1>10, <1>11 DEF b, str, len, old

\* The first k bytes taken out of the buffer, and the rest moved to its front.
LEMMA TakenBytes ==
    ASSUME NEW size \in Nat, NEW buf \in [0 .. size - 1 -> Nat], NEW now \in 0 .. size, NEW k \in 0 .. now,
           \A j \in 0 .. now - 1 : buf[j] \in Text
    PROVE  LET rest == [i \in 1 .. now - k |-> buf[k + i - 1]]
               b == Stored(buf, 0, rest)
               d == Bytes(buf, now)
           IN  /\ \A j \in 0 .. now - k - 1 : b[j] = buf[j + k] /\ b[j] \in Text
               /\ d \in Seq(Text) /\ Len(d) = now
               /\ SubSeq(d, 1, k) = Bytes(buf, k)
               /\ SubSeq(d, k + 1, now) = Bytes(b, now - k)
<1> DEFINE rest == [i \in 1 .. now - k |-> buf[k + i - 1]]
           b == Stored(buf, 0, rest)
           d == Bytes(buf, now)
<1>1. now \in Nat /\ k \in Nat /\ now - k \in Nat /\ Text \subseteq Nat
  BY CharCodes
<1>2. \A i \in 1 .. now - k : buf[k + i - 1] \in Text
  BY <1>1
<1>3. rest \in Seq(Text) /\ Len(rest) = now - k /\ \A i \in 1 .. now - k : rest[i] = buf[k + i - 1]
  <2>1. rest \in Seq(Text)
    BY <1>1, <1>2, IsASeq
  <2>2. QED BY <1>1, <2>1, LenProperties
<1>4. d \in Seq(Text) /\ Len(d) = now /\ \A i \in 1 .. now : d[i] = buf[i - 1]
  <2>1. now \in Nat
    BY <1>1
  <2>2. QED BY <2>1, BytesSeq
<1> HIDE DEF rest, d
<1>5. \A i \in 1 .. now - k : b[0 + i - 1] = rest[i]
  <2>1. rest \in Seq(Nat) /\ 0 + Len(rest) <= size /\ 0 \in Nat
    BY <1>1, <1>3, SeqOfMore, SMTT(20)
  <2>2. \A i \in 1 .. Len(rest) : Stored(buf, 0, rest)[0 + i - 1] = rest[i]
    BY <2>1, StoredBytes
  <2>3. QED BY <1>3, <2>2
<1> HIDE DEF b
<1>6. \A j \in 0 .. now - k - 1 : b[j] = buf[j + k] /\ b[j] \in Text
  <2>1. ASSUME NEW j \in 0 .. now - k - 1 PROVE b[j] = buf[j + k] /\ b[j] \in Text
    <3>1. j + 1 \in 1 .. now - k /\ 0 + (j + 1) - 1 = j /\ k + (j + 1) - 1 = j + k
      BY <1>1
    <3>2. b[j] = rest[j + 1] /\ rest[j + 1] = buf[j + k]
      BY <1>3, <1>5, <3>1
    <3>3. QED BY <1>2, <3>1, <3>2
  <2>2. QED BY <2>1
<1>7. SubSeq(d, 1, k) = Bytes(buf, k)
  <2>1. /\ SubSeq(d, 1, k) \in Seq(Text) /\ Len(SubSeq(d, 1, k)) = k
        /\ \A i \in 1 .. k : SubSeq(d, 1, k)[i] = d[i]
    <3>1. \A i \in 1 .. k : d[i] \in Text
      BY <1>1, <1>4
    <3>2. QED BY <1>1, <3>1, SubSeqProperties
  <2>2. /\ Bytes(buf, k) \in Seq(Text) /\ Len(Bytes(buf, k)) = k
        /\ \A i \in 1 .. k : Bytes(buf, k)[i] = buf[i - 1]
    <3>1. k \in Nat /\ \A j \in 0 .. k - 1 : buf[j] \in Text
      BY <1>1
    <3>2. QED BY <3>1, BytesSeq
  <2>3. \A i \in 1 .. k : SubSeq(d, 1, k)[i] = Bytes(buf, k)[i]
    BY <1>1, <1>4, <2>1, <2>2
  <2>4. QED BY <2>1, <2>2, <2>3, SeqEqual
<1>8. SubSeq(d, k + 1, now) = Bytes(b, now - k)
  <2>1. /\ SubSeq(d, k + 1, now) \in Seq(Text) /\ Len(SubSeq(d, k + 1, now)) = now - k
        /\ \A i \in 1 .. now - k : SubSeq(d, k + 1, now)[i] = d[k + i]
    <3>1. \A i \in k + 1 .. now : d[i] \in Text
      BY <1>1, <1>4
    <3>2. k + 1 \in Int /\ now \in Int /\ now - (k + 1) + 1 = now - k
      BY <1>1
    <3>3. /\ SubSeq(d, k + 1, now) \in Seq(Text)
          /\ Len(SubSeq(d, k + 1, now)) = (IF k + 1 <= now THEN now - (k + 1) + 1 ELSE 0)
          /\ \A i \in 1 .. now - (k + 1) + 1 : SubSeq(d, k + 1, now)[i] = d[k + 1 + i - 1]
      BY <3>1, <3>2, SubSeqProperties
    <3>4. \A i \in 1 .. now - k : k + 1 + i - 1 = k + i
      BY <1>1
    <3>5. QED BY <1>1, <3>2, <3>3, <3>4
  <2>2. /\ Bytes(b, now - k) \in Seq(Text) /\ Len(Bytes(b, now - k)) = now - k
        /\ \A i \in 1 .. now - k : Bytes(b, now - k)[i] = b[i - 1]
    <3>1. now - k \in Nat /\ \A j \in 0 .. (now - k) - 1 : b[j] \in Text
      BY <1>1, <1>6
    <3>2. QED BY <3>1, BytesSeq
  <2>3. ASSUME NEW i \in 1 .. now - k PROVE d[k + i] = b[i - 1]
    <3>1. k + i \in 1 .. now /\ i - 1 \in 0 .. now - k - 1 /\ (k + i) - 1 = (i - 1) + k
      BY <1>1
    <3>2. QED BY <1>4, <1>6, <3>1
  <2>4. \A i \in 1 .. now - k : SubSeq(d, k + 1, now)[i] = Bytes(b, now - k)[i]
    BY <2>1, <2>2, <2>3
  <2>5. QED BY <2>1, <2>2, <2>4, SeqEqual
<1>9. QED BY <1>4, <1>6, <1>7, <1>8 DEF rest, b, d

\* One byte more.
LEMMA OneByteMore ==
    ASSUME NEW buf, NEW n \in Nat, \A j \in 0 .. n : buf[j] \in Text
    PROVE  Bytes(buf, n + 1) = Append(Bytes(buf, n), buf[n])
<1>1. /\ Bytes(buf, n) \in Seq(Text) /\ Len(Bytes(buf, n)) = n
      /\ \A i \in 1 .. n : Bytes(buf, n)[i] = buf[i - 1]
  <2>1. \A j \in 0 .. n - 1 : buf[j] \in Text
    OBVIOUS
  <2>2. QED BY <2>1, BytesSeq
<1>2. /\ Bytes(buf, n + 1) \in Seq(Text) /\ Len(Bytes(buf, n + 1)) = n + 1
      /\ \A i \in 1 .. n + 1 : Bytes(buf, n + 1)[i] = buf[i - 1]
  <2>1. n + 1 \in Nat /\ \A j \in 0 .. (n + 1) - 1 : buf[j] \in Text
    OBVIOUS
  <2>2. QED BY <2>1, BytesSeq
<1>3. /\ Append(Bytes(buf, n), buf[n]) \in Seq(Text) /\ Len(Append(Bytes(buf, n), buf[n])) = n + 1
      /\ \A i \in 1 .. n : Append(Bytes(buf, n), buf[n])[i] = Bytes(buf, n)[i]
      /\ Append(Bytes(buf, n), buf[n])[n + 1] = buf[n]
  <2>1. buf[n] \in Text
    OBVIOUS
  <2>2. QED BY <1>1, <2>1, AppendProperties
<1>4. ASSUME NEW i \in 1 .. n + 1 PROVE Bytes(buf, n + 1)[i] = Append(Bytes(buf, n), buf[n])[i]
  <2>1. CASE i \in 1 .. n
    BY <1>1, <1>2, <1>3, <2>1
  <2>2. CASE i = n + 1
    <3>1. i - 1 = n
      BY <2>2
    <3>2. QED BY <1>2, <1>3, <2>2, <3>1
  <2>3. i \in 1 .. n \/ i = n + 1
    OBVIOUS
  <2>4. QED BY <2>1, <2>2, <2>3
<1>5. \A i \in 1 .. n + 1 : Bytes(buf, n + 1)[i] = Append(Bytes(buf, n), buf[n])[i]
  BY <1>4
<1>6. QED BY <1>2, <1>3, <1>5, SeqEqual

\* A line is entered behind what the buffer holds.
LEMMA LineEntered ==
    ASSUME InputInv, ~fault, EnterLine, UNCHANGED <<spoilt, astray>>, Reading' = Reading
    PROVE  InputInv'
<1> DEFINE now == input.now
           line == SubSeq(typing, 1, Min({Len(typing), InputSize - now}))
           end == now + Len(line)
<1>1. /\ InputType /\ now \in Nat /\ InputSize \in Nat \ {0} /\ InputSize - now \in Nat
      /\ typing \in Seq(Chars) /\ Len(typing) \in Nat
  BY SizesAssumption DEF InputInv, InputType
<1>2. /\ line \in Seq(Chars)
      /\ Len(line) = (IF Len(typing) <= InputSize - now THEN Len(typing) ELSE InputSize - now)
      /\ Len(typing) <= InputSize - now => line = typing
  BY <1>1, Prefix
<1>3. /\ input' = [buf |-> Stored(input.buf, now, Append(line, NewLine)), now |-> end + 1]
      /\ fault' = (end = InputSize) /\ lineEvent' = 0 /\ typing' = <<>>
      /\ due' = due \o typing \o <<NewLine>>
  BY DEF EnterLine
<1> HIDE DEF line
<1>4. typing' \in Seq(Chars) /\ Len(typing') <= LineSize
  BY <1>3, SizesAssumption
<1>5. CASE fault'
  <2>1. input'.now > InputSize
    <3>1. end = InputSize /\ input'.now = end + 1
      BY <1>3, <1>5
    <3>2. QED BY <1>1, <3>1
  <2>2. QED BY <1>4, <1>5, <2>1 DEF InputInv
<1>6. CASE ~fault'
  <2>1. line = typing /\ end < InputSize /\ end \in Nat
    <3>1. end # InputSize
      BY <1>3, <1>6
    <3>2. QED BY <1>1, <1>2, <3>1
  <2>2. typing \in Seq(Text) /\ now + Len(typing) < InputSize
    BY <1>1, <2>1, SeqOfMore DEF Text
  <2>3. InputType'
    <3>1. Append(typing, NewLine) \in Seq(Nat) /\ Len(Append(typing, NewLine)) = Len(typing) + 1
      <4>1. typing \in Seq(Nat) /\ NewLine \in Nat
        BY <2>2, CharCodes, SeqOfMore DEF NewLine
      <4>2. QED BY <4>1, AppendProperties
    <3>2. now + Len(Append(typing, NewLine)) <= InputSize
      BY <1>1, <2>2, <3>1
    <3>3. Stored(input.buf, now, Append(typing, NewLine)) \in [0 .. InputSize - 1 -> Nat]
      BY <1>1, <3>1, <3>2, StoredBytes DEF InputType
    <3>4. QED BY <1>1, <1>3, <2>1, <3>3 DEF InputType
  <2>4. CASE spoilt
    BY <1>4, <1>6, <2>3, <2>4 DEF InputInv
  <2>5. CASE ~spoilt
    <3>1. LinesDue
      BY <1>6, <2>5 DEF InputInv
    <3>2. /\ \A j \in 0 .. now - 1 : input'.buf[j] = input.buf[j]
          /\ \A j \in 0 .. end : input'.buf[j] \in Text
          /\ input'.buf[end] = NewLine
          /\ due' = Bytes(input'.buf, end + 1)
      <4>1. /\ input.buf \in [0 .. InputSize - 1 -> Nat] /\ InputSize \in Nat /\ now \in Nat
            /\ \A j \in 0 .. now - 1 : input.buf[j] \in Text
        BY <1>1, <3>1 DEF InputType, LinesDue
      <4>2. LET b == Stored(input.buf, now, Append(typing, NewLine))
                e == now + Len(typing)
            IN  /\ \A j \in 0 .. now - 1 : b[j] = input.buf[j]
                /\ \A j \in 0 .. e : b[j] \in Text
                /\ b[e] = NewLine
                /\ Bytes(input.buf, now) \o typing \o <<NewLine>> = Bytes(b, e + 1)
        BY <2>2, <4>1, StoredLine
      <4>3. due = Bytes(input.buf, now) /\ input'.buf = Stored(input.buf, now, Append(typing, NewLine))
        BY <1>3, <2>1, <3>1 DEF LinesDue
      <4>4. QED BY <1>3, <2>1, <4>2, <4>3
    <3>3. Reading' => \E i \in 0 .. end - 1 : input'.buf[i] = NewLine
      <4>1. Reading => now # 0 /\ input.buf[now - 1] = NewLine
        BY <3>1 DEF LinesDue
      <4>2. now # 0 => now - 1 \in 0 .. end - 1 /\ now - 1 \in 0 .. now - 1
        BY <1>1, <2>1
      <4>3. QED BY <3>2, <4>1, <4>2
    <3>4. input'.now = end + 1 /\ (end + 1) - 1 = end /\ (end + 1) - 2 = end - 1 /\ end + 1 # 0
      <4>1. input'.now = end + 1
        BY <1>3
      <4>2. \A n \in Nat : (n + 1) - 1 = n /\ (n + 1) - 2 = n - 1 /\ n + 1 # 0
        OBVIOUS
      <4>3. QED BY <2>1, <4>1, <4>2
    <3> HIDE DEF end, now
    <3>5. LinesDue'
      BY <3>2, <3>3, <3>4 DEF LinesDue
    <3>6. LineEventRight'
      BY <1>3, <3>4 DEF LineEventRight
    <3>7. ~astray'
      BY DEF InputInv
    <3>8. QED BY <1>4, <1>6, <2>3, <3>5, <3>6, <3>7 DEF InputInv
  <2>6. QED BY <2>4, <2>5
<1>7. QED BY <1>5, <1>6

\* A step that leaves the input.
LEMMA InputCarried ==
    ASSUME InputInv, UNCHANGED <<input, lineEvent, fault, due, spoilt, astray>>, Reading' <=> Reading,
           typing' \in Seq(Chars), Len(typing') <= LineSize
    PROVE  InputInv'
BY DEF InputInv, InputType, LinesDue, LineEventRight

\* A key changes the line by a character at most.
LEMMA EditedLine ==
    ASSUME typing \in Seq(Chars), Len(typing) <= LineSize, NEW k
    PROVE  Edited(k) \in Seq(Chars) /\ Len(Edited(k)) <= LineSize
<1>1. LineSize \in Nat /\ Len(typing) \in Nat
  BY SizesAssumption
<1>2. CASE k \in Chars /\ Len(typing) < LineSize
  <2>1. Edited(k) = Append(typing, k)
    BY <1>2 DEF Edited
  <2>2. QED BY <1>1, <1>2, <2>1, AppendProperties
<1>3. CASE k \notin Chars /\ k = Backspace /\ typing # <<>>
  <2>1. Edited(k) = SubSeq(typing, 1, Len(typing) - 1)
    BY <1>3 DEF Edited
  <2>2. Len(typing) - 1 \in Nat /\ \A i \in 1 .. Len(typing) - 1 : typing[i] \in Chars
    BY <1>1, <1>3
  <2>3. QED BY <1>1, <2>1, <2>2, SubSeqProperties
<1>4. CASE Edited(k) = typing
  BY <1>4
<1>5. QED BY <1>2, <1>3, <1>4 DEF Edited

\* A reader that has entered the event takes a character.
LEMMA CharTaken ==
    ASSUME InputInv, ~fault, GetChar, UNCHANGED typing, Reading, ~Reading'
    PROVE  InputInv'
<1> DEFINE now == input.now
           b == Stored(input.buf, 0, Part(1, now))
<1>1. /\ InputType /\ now \in 0 .. InputSize /\ InputSize \in Nat
      /\ input.buf \in [0 .. InputSize - 1 -> Nat]
      /\ typing \in Seq(Chars) /\ Len(typing) <= LineSize /\ ~astray
      /\ ~spoilt => LinesDue /\ now # 0
  BY SizesAssumption DEF InputInv, InputType, LinesDue
<1>2. CASE now = 0
  BY <1>1, <1>2 DEF GetChar, InputInv, ghosts
<1>3. CASE now > 0
  <2>1. /\ input' = [buf |-> b, now |-> now - 1]
        /\ lineEvent' = (IF input'.now # 0 THEN 0 ELSE lineEvent)
        /\ Take(<<input.buf[0]>>)
        /\ UNCHANGED <<fault, spoilt>>
    BY <1>3 DEF GetChar, PostLine
  <2>2. InputType'
    <3>1. Part(1, now) = [i \in 1 .. now - 1 |-> input.buf[1 + i - 1]]
      BY DEF Part
    <3>2. now - 1 \in Nat /\ \A i \in 1 .. now - 1 : input.buf[1 + i - 1] \in Nat
      BY <1>1, <1>3
    <3>3. Part(1, now) \in Seq(Nat)
      BY <3>1, <3>2, IsASeq
    <3>4. Len(Part(1, now)) = now - 1
      BY <3>1, <3>2, <3>3, LenProperties
    <3>5. 0 + Len(Part(1, now)) <= InputSize /\ 0 \in Nat
      BY <1>1, <3>4
    <3>6. b \in [0 .. InputSize - 1 -> Nat]
      BY <1>1, <3>3, <3>5, StoredBytes
    <3>7. QED BY <1>1, <1>3, <2>1, <3>6 DEF InputType
  <2>3. CASE spoilt
    BY <1>1, <2>1, <2>2, <2>3 DEF Take, InputInv
  <2>4. CASE ~spoilt
    <3>1. LinesDue /\ due = Bytes(input.buf, now)
      BY <1>1, <2>4 DEF LinesDue
    <3>2. /\ \A j \in 0 .. now - 2 : b[j] = input.buf[j + 1] /\ b[j] \in Text
          /\ due \in Seq(Text) /\ Len(due) = now
          /\ SubSeq(due, 1, 1) = Bytes(input.buf, 1)
          /\ SubSeq(due, 2, now) = Bytes(b, now - 1)
      <4>1. 1 \in 0 .. now /\ \A j \in 0 .. now - 1 : input.buf[j] \in Text
        BY <1>1, <1>3, <3>1 DEF LinesDue
      <4>2. LET rest == [i \in 1 .. now - 1 |-> input.buf[1 + i - 1]]
                c == Stored(input.buf, 0, rest)
                d == Bytes(input.buf, now)
            IN  /\ \A j \in 0 .. now - 1 - 1 : c[j] = input.buf[j + 1] /\ c[j] \in Text
                /\ d \in Seq(Text) /\ Len(d) = now
                /\ SubSeq(d, 1, 1) = Bytes(input.buf, 1)
                /\ SubSeq(d, 1 + 1, now) = Bytes(c, now - 1)
        BY <1>1, <4>1, TakenBytes
      <4>3. now - 1 - 1 = now - 2 /\ 1 + 1 = 2
        BY <1>1
      <4>4. QED BY <3>1, <4>2, <4>3 DEF Part
    <3> HIDE DEF b
    <3>3. <<input.buf[0]>> = Bytes(input.buf, 1) /\ Len(<<input.buf[0]>>) = 1
      BY DEF Bytes
    <3>4. due' = SubSeq(due, 2, Len(due)) /\ ~astray'
      <4>1. Len(<<input.buf[0]>>) <= Len(due)
        BY <1>1, <1>3, <3>2, <3>3
      <4>2. SubSeq(due, 1, Len(<<input.buf[0]>>)) = <<input.buf[0]>>
        BY <3>2, <3>3
      <4>3. due' = SubSeq(due, Len(<<input.buf[0]>>) + 1, Len(due)) /\ UNCHANGED astray
        BY <2>1, <2>4, <4>1, <4>2 DEF Take
      <4>4. QED BY <1>1, <3>3, <4>3
    <3>5. LinesDue'
      <4>1. input'.now = now - 1 /\ input'.buf = b
        BY <2>1
      <4>2. due' = Bytes(input'.buf, input'.now)
        BY <3>2, <3>4, <4>1
      <4>3. \A i \in 0 .. input'.now - 1 : input'.buf[i] \in Text
        <5>1. (now - 1) - 1 = now - 2
          BY <1>1
        <5>2. QED BY <3>2, <4>1, <5>1
      <4>4. input'.now # 0 => input'.buf[input'.now - 1] = NewLine
        <5>1. input.buf[now - 1] = NewLine
          BY <1>3, <3>1 DEF LinesDue
        <5>2. now - 1 # 0 => now - 2 \in 0 .. now - 2 /\ (now - 2) + 1 = now - 1 /\ (now - 1) - 1 = now - 2
          BY <1>1, <1>3
        <5>3. QED BY <3>2, <4>1, <5>1, <5>2
      <4>5. QED BY <4>2, <4>3, <4>4 DEF LinesDue
    <3>6. LineEventRight'
      <4>1. input'.now = now - 1 /\ (now - 1 # 0 => lineEvent' = 0) /\ (now - 1 = 0 => lineEvent' = lineEvent)
        BY <2>1
      <4>2. now - 1 = 0 => lineEvent # 0
        <5>1. lineEvent = 0 => \E i \in 0 .. now - 2 : input.buf[i] = NewLine
          BY <3>1 DEF LinesDue
        <5>2. now - 1 = 0 => ~\E i \in 0 .. now - 2 : TRUE
          BY <1>1
        <5>3. QED BY <5>1, <5>2
      <4>3. QED BY <4>1, <4>2 DEF LineEventRight
    <3>7. QED BY <1>1, <2>1, <2>2, <3>4, <3>5, <3>6 DEF InputInv
  <2>5. QED BY <2>3, <2>4
<1>4. QED BY <1>1, <1>2, <1>3

\* A reader that has entered the event takes the first line; if nothing is behind it
\* the buffer is empty, and the event was not posted again.
LEMMA LineTaken ==
    ASSUME InputInv, ~fault, GetLine, UNCHANGED typing, Reading, ~Reading'
    PROVE  InputInv'
<1> DEFINE now == input.now
<1>1. /\ InputType /\ now \in 0 .. InputSize /\ InputSize \in Nat
      /\ input.buf \in [0 .. InputSize - 1 -> Nat] /\ DOMAIN input.buf = 0 .. InputSize - 1
      /\ typing \in Seq(Chars) /\ Len(typing) <= LineSize /\ ~astray
      /\ ~spoilt => LinesDue /\ now # 0
  BY SizesAssumption DEF InputInv, InputType, LinesDue
<1>2. CASE ~\E i \in DOMAIN input.buf : LineEnds(i)
  <2>1. spoilt
    BY <1>1, <1>2, FirstLineEnds
  <2>2. UNCHANGED <<spoilt, astray>> /\ fault'
    BY <1>2 DEF GetLine, ghosts
  <2>3. QED BY <1>1, <2>1, <2>2 DEF InputInv
<1>3. CASE \E i \in DOMAIN input.buf : LineEnds(i)
  <2> DEFINE i == CHOOSE i \in DOMAIN input.buf : LineEnds(i)
             line == Append(Part(0, i), NewLine)
  <2>1. i \in 0 .. InputSize - 1 /\ LineEnds(i)
    BY <1>1, <1>3
  <2>2. /\ fault' = (now <= i)
        /\ input' = IF fault' THEN input
                    ELSE [buf |-> Stored(input.buf, 0, Part(i, now)), now |-> now - (i + 1)]
        /\ Take(line)
        /\ spoilt' = (spoilt \/ i + 1 < now)
        /\ lineEvent' = (IF input'.now # 0 THEN 0 ELSE lineEvent)
    BY <1>3 DEF GetLine, Rest, PostLine
  <2> HIDE DEF i
  <2>3. ~fault' => InputType'
    <3>1. SUFFICES ASSUME ~fault' PROVE InputType'
      OBVIOUS
    <3>2. i < now /\ i \in Nat /\ now - i \in Nat /\ now - (i + 1) \in 0 .. InputSize
      <4>1. ~(now <= i)
        BY <2>2, <3>1
      <4>2. QED BY <1>1, <2>1, <4>1
    <3>3. Part(i, now) = [k \in 1 .. now - i |-> input.buf[i + k - 1]]
      BY DEF Part
    <3>4. \A k \in 1 .. now - i : input.buf[i + k - 1] \in Nat
      <4>1. \A k \in 1 .. now - i : i + k - 1 \in 0 .. InputSize - 1
        BY <1>1, <3>2
      <4>2. QED BY <1>1, <4>1
    <3>5. Part(i, now) \in Seq(Nat)
      BY <3>2, <3>3, <3>4, IsASeq
    <3>6. Len(Part(i, now)) = now - i
      BY <3>2, <3>3, <3>5, LenProperties
    <3>7. 0 + Len(Part(i, now)) <= InputSize /\ 0 \in Nat
      BY <1>1, <3>2, <3>6
    <3>8. Stored(input.buf, 0, Part(i, now)) \in [0 .. InputSize - 1 -> Nat]
      BY <1>1, <3>5, <3>7, StoredBytes
    <3>9. QED BY <2>2, <3>1, <3>2, <3>8 DEF InputType
  <2>4. CASE spoilt
    <3>1. spoilt' /\ ~astray'
      BY <1>1, <2>2, <2>4 DEF Take
    <3>2. QED BY <1>1, <2>3, <3>1 DEF InputInv
  <2>5. CASE ~spoilt
    <3>1. LinesDue /\ due = Bytes(input.buf, now) /\ now # 0
      BY <1>1, <2>5 DEF LinesDue
    <3>2. i \in 0 .. now - 1 /\ \A j \in 0 .. i - 1 : input.buf[j] # NewLine
      BY <1>1, <2>1, <3>1, FirstLineEnds
    <3>3. ~fault' /\ input'.now = now - (i + 1)
      <4>1. ~(now <= i)
        BY <1>1, <3>2
      <4>2. QED BY <2>2, <4>1
    <3>4. \A j \in 0 .. now - 1 : input.buf[j] \in Text
      BY <3>1 DEF LinesDue
    <3>5. line = Bytes(input.buf, i + 1) /\ Len(line) = i + 1
      <4>1. Part(0, i) = Bytes(input.buf, i)
        <5>1. i - 0 = i /\ \A k \in 1 .. i : 0 + k - 1 = k - 1
          BY <2>1
        <5>2. QED BY <5>1 DEF Part, Bytes
      <4>2. i \in Nat /\ \A j \in 0 .. i : input.buf[j] \in Text
        BY <1>1, <3>2, <3>4
      <4>3. input.buf[i] = NewLine
        BY <2>1 DEF LineEnds
      <4>4. line = Bytes(input.buf, i + 1)
        BY <4>1, <4>2, <4>3, OneByteMore
      <4>5. i + 1 \in Nat /\ \A j \in 0 .. (i + 1) - 1 : input.buf[j] \in Text
        BY <4>2
      <4>6. QED BY <4>4, <4>5, BytesSeq
    <3> HIDE DEF line
    <3>6. due \in Seq(Text) /\ Len(due) = now /\ SubSeq(due, 1, i + 1) = Bytes(input.buf, i + 1)
      <4>1. i + 1 \in 0 .. now
        BY <1>1, <3>2
      <4>2. LET d == Bytes(input.buf, now)
            IN  d \in Seq(Text) /\ Len(d) = now /\ SubSeq(d, 1, i + 1) = Bytes(input.buf, i + 1)
        BY <1>1, <3>4, <4>1, TakenBytes
      <4>3. QED BY <3>1, <4>2
    <3>7. due' = SubSeq(due, i + 2, now) /\ ~astray'
      <4>1. Len(line) <= Len(due) /\ SubSeq(due, 1, Len(line)) = line
        BY <1>1, <3>2, <3>5, <3>6
      <4>2. due' = SubSeq(due, Len(line) + 1, Len(due)) /\ UNCHANGED astray
        BY <2>2, <2>5, <4>1 DEF Take
      <4>3. (i + 1) + 1 = i + 2
        BY <3>2
      <4>4. QED BY <1>1, <3>5, <3>6, <4>2, <4>3
    <3>8. CASE i + 1 < now
      <4>1. spoilt'
        BY <2>2, <3>8
      <4>2. QED BY <1>1, <2>3, <3>3, <3>7, <4>1 DEF InputInv
    <3>9. CASE ~(i + 1 < now)
      <4>1. i + 1 = now /\ input'.now = 0
        BY <1>1, <3>2, <3>3, <3>9
      <4>2. due' = <<>>
        <5>1. now < i + 2 /\ i + 2 \in Int /\ now \in Int
          BY <1>1, <3>2, <4>1
        <5>2. QED BY <3>7, <5>1, SubSeqEmpty
      <4>3. Bytes(input'.buf, 0) = <<>>
        BY DEF Bytes
      <4>4. lineEvent' # 0
        <5>1. lineEvent' = lineEvent
          BY <2>2, <4>1
        <5>2. lineEvent = 0 => \E j \in 0 .. now - 2 : input.buf[j] = NewLine
          BY <3>1 DEF LinesDue
        <5>3. \A j \in 0 .. now - 2 : j \in 0 .. i - 1
          BY <1>1, <3>2, <4>1
        <5>4. QED BY <3>2, <5>1, <5>2, <5>3
      <4>5. LinesDue' /\ LineEventRight'
        BY <4>1, <4>2, <4>3, <4>4 DEF LinesDue, LineEventRight
      <4>6. QED BY <1>1, <2>3, <3>3, <3>7, <4>5 DEF InputInv
    <3>10. QED BY <3>8, <3>9
  <2>6. QED BY <2>4, <2>5
<1>4. QED BY <1>2, <1>3

\* The input is thrown away, with its event and what was due.
LEMMA InputCleared ==
    ASSUME InputInv, ~fault, ClearInput, typing' = <<>>, UNCHANGED fault, ~Reading'
    PROVE  InputInv'
<1>1. /\ InputType /\ ~astray
      /\ input' = [input EXCEPT !.now = 0] /\ lineEvent' = 1 /\ due' = <<>> /\ ~spoilt' /\ UNCHANGED astray
  BY DEF InputInv, ClearInput
<1>2. input'.now = 0 /\ input'.buf = input.buf /\ InputType'
  BY <1>1, SizesAssumption DEF InputType
<1>3. LinesDue' /\ LineEventRight'
  BY <1>1, <1>2 DEF LinesDue, LineEventRight, Bytes
<1>4. typing' \in Seq(Chars) /\ Len(typing') <= LineSize
  BY SizesAssumption
<1>5. QED BY <1>1, <1>2, <1>3, <1>4 DEF InputInv

\* At the start nothing was entered and the event is not posted.
LEMMA InputInitial == Init => InputInv
<1>1. SUFFICES ASSUME Init PROVE InputInv
  OBVIOUS
<1>2. /\ input = [buf |-> [i \in 0 .. InputSize - 1 |-> Nul], now |-> 0]
      /\ typing = <<>> /\ due = <<>> /\ ~fault /\ ~spoilt /\ ~astray /\ lineEvent = 1
      /\ op["reader"] = "none"
  BY <1>1 DEF Init, Tasks
<1>3. InputType
  BY <1>2, SizesAssumption DEF InputType, Nul
<1>4. ~Reading
  BY <1>2 DEF Reading, HasEntered
<1>5. LinesDue /\ LineEventRight
  BY <1>2, <1>4 DEF LinesDue, LineEventRight, Bytes
<1>6. typing \in Seq(Chars) /\ Len(typing) <= LineSize
  BY <1>2, SizesAssumption
<1>7. QED BY <1>2, <1>3, <1>5, <1>6 DEF InputInv

\* Every step keeps what the event says of the input.
LEMMA InputStep ==
    ASSUME CallsInv, HitsInv, InputInv, [Next]_vars
    PROVE  InputInv'
<1> USE DEF Tasks, buffers, ghosts
<1>1. typing \in Seq(Chars) /\ Len(typing) <= LineSize
  BY DEF InputInv
<1>2. CASE UNCHANGED vars
  BY <1>1, <1>2, InputCarried DEF vars, Reading, HasEntered
<1>3. ASSUME NEW k \in Keys, Press(k) PROVE InputInv'
  BY <1>1, <1>3, InputCarried DEF Press, Call, Reading, HasEntered, CallsInv
<1>4. ASSUME NEW o \in ReaderCalls, Ask("reader", o, MaxCalls) PROVE InputInv'
  <2>1. op["reader"] = "none" /\ op'["reader"] = o /\ waits'["reader"] = Stages(o)
        /\ UNCHANGED <<input, lineEvent, fault, due, spoilt, astray, typing>>
    BY <1>4 DEF Ask, Call, CallsInv
  <2>2. Stages("GetLine") # <<"body">> /\ Stages("GetChar") # <<"body">>
    BY ThreeParts DEF Stages, Parts
  <2>3. Reading' = Reading
    BY <2>1, <2>2 DEF Reading, HasEntered
  <2>4. QED BY <1>1, <2>1, <2>3, InputCarried
<1>5. CASE Ask("printer", "Print", MaxPrints)
  BY <1>1, <1>5, InputCarried DEF Ask, Call, Reading, HasEntered, CallsInv
<1>6. ASSUME NEW t \in Tasks, EnterMutex(t) PROVE InputInv'
  BY <1>1, <1>6, InputCarried DEF EnterMutex, Reading, HasEntered
<1>7. ASSUME NEW t \in Tasks, EnterEvent(t), ~fault PROVE InputInv'
  <2>1. /\ t = "reader" /\ waits'["reader"] = <<"body">> /\ waits["reader"] # <<"body">>
        /\ Stage("reader") = "line" => op["reader"] \in {"GetLine", "GetChar"}
        /\ Stage("reader") = "hit" => op["reader"] = "Getch"
    BY <1>7, EnterEventKeeps
  <2>2. ~Reading /\ UNCHANGED <<input, fault, due, spoilt, astray, typing, op>>
    BY <1>7, <2>1 DEF Reading, HasEntered, EnterEvent
  <2>3. CASE Stage("reader") = "hit"
    <3>1. UNCHANGED lineEvent /\ ~Reading'
      BY <1>7, <2>1, <2>2, <2>3 DEF EnterEvent, Reading, HasEntered
    <3>2. QED BY <1>1, <2>2, <3>1, InputCarried
  <2>4. CASE Stage("reader") = "line"
    <3>1. lineEvent = 0 /\ lineEvent' = 1
      BY <1>7, <2>1, <2>4 DEF EnterEvent, Enterable
    <3>2. Reading'
      BY <2>1, <2>2, <2>4 DEF Reading, HasEntered
    <3>3. spoilt \/ (LinesDue /\ input.now # 0)
      BY <1>7, <2>2, <3>1 DEF InputInv, LineEventRight
    <3>4. spoilt' \/ (LinesDue' /\ LineEventRight')
      BY <2>2, <3>1, <3>2, <3>3 DEF LinesDue, LineEventRight
    <3>5. InputType' /\ ~astray' /\ ~fault'
      BY <1>7, <2>2 DEF InputInv, InputType
    <3>6. QED BY <1>1, <2>2, <3>4, <3>5 DEF InputInv
  <2>5. QED BY <1>7, <2>1, <2>3, <2>4 DEF EnterEvent
<1>8. ASSUME MainBody, ~fault PROVE InputInv'
  <2>1. OnInput(key) /\ Reading' = Reading
    BY <1>8, LeaveKeeps DEF MainBody, Reading, HasEntered
  <2>2. UNCHANGED <<spoilt, astray>>
    BY <2>1 DEF OnInput
  <2>3. CASE stat = "INPUTING" /\ key = NewLine
    BY <1>8, <2>1, <2>2, <2>3, LineEntered DEF OnInput
  <2>4. CASE ~(stat = "INPUTING" /\ key = NewLine)
    <3>1. typing' \in {typing, Edited(key)} /\ UNCHANGED <<input, lineEvent, fault, due>>
      BY <2>1, <2>4 DEF OnInput
    <3>2. typing' \in Seq(Chars) /\ Len(typing') <= LineSize
      BY <1>1, <3>1, EditedLine
    <3>3. QED BY <2>1, <2>2, <3>1, <3>2, InputCarried
  <2>5. QED BY <2>3, <2>4
<1>9. CASE SetStatus
  <2>1. UNCHANGED <<input, lineEvent, fault, due, spoilt, astray, typing>>
    BY <1>9 DEF SetStatus
  <2>2. waits["reader"] \in Remaining(op["reader"]) /\ waits["reader"] # <<>> /\ Head(waits["reader"]) = "status"
    BY <1>9 DEF SetStatus, CallsInv, Stage
  <2>3. waits["reader"] # <<"body">>
    BY <2>2, FirstPart
  <2>4. waits'["reader"] = <<"line", "body">>
    BY <1>9, <2>3, LeaveKeeps DEF SetStatus
  <2>5. <<"line", "body">> # <<"body">>
    BY TwoParts DEF Parts
  <2>6. ~Reading /\ ~Reading'
    BY <2>3, <2>4, <2>5 DEF Reading, HasEntered
  <2>7. QED BY <1>1, <2>1, <2>6, InputCarried
<1>10. ASSUME ReaderBody, ~fault PROVE InputInv'
  <2>1. /\ Reading <=> op["reader"] \in {"GetLine", "GetChar"}
        /\ HasEntered({"Getch"}) <=> op["reader"] = "Getch"
        /\ ~Reading' /\ ~HasEntered({"Getch"})' /\ UNCHANGED key
    BY <1>10, ReaderReturns DEF Reading
  <2>2. CASE op["reader"] = "GetLine"
    BY <1>10, <2>1, <2>2, LineTaken DEF ReaderBody
  <2>3. CASE op["reader"] = "GetChar"
    BY <1>10, <2>1, <2>3, CharTaken DEF ReaderBody
  <2>4. CASE op["reader"] = "Getch"
    <3>1. Getch
      BY <1>10, <2>4 DEF ReaderBody
    <3>2. ~fault' /\ UNCHANGED <<lineEvent, typing, input, due, spoilt, astray>>
      BY <2>1, <2>4, <3>1, HitsTaken DEF Getch
    <3>3. ~Reading
      BY <2>1, <2>4
    <3>4. InputType' /\ ~astray'
      BY <1>10, <3>2 DEF InputInv, InputType
    <3>5. spoilt' \/ (LinesDue' /\ LineEventRight')
      BY <1>10, <2>1, <3>2, <3>3 DEF InputInv, LinesDue, LineEventRight
    <3>6. QED BY <1>1, <3>2, <3>4, <3>5 DEF InputInv
  <2>5. CASE op["reader"] \in {"GotoXY", "ClearAllBuffers"}
    BY <1>10, <2>1, <2>5, InputCleared DEF ReaderBody
  <2>6. CASE op["reader"] = "Wait"
    BY <1>1, <1>10, <2>1, <2>6, InputCarried DEF ReaderBody
  <2>7. QED BY <1>10, <2>2, <2>3, <2>4, <2>5, <2>6 DEF ReaderBody
<1>11. CASE PrinterBody
  <2>1. UNCHANGED <<input, lineEvent, fault, due, spoilt, astray, typing>>
    BY <1>11 DEF PrinterBody
  <2>2. Reading' = Reading
    BY <1>11, LeaveKeeps DEF PrinterBody, Reading, HasEntered
  <2>3. QED BY <1>1, <2>1, <2>2, InputCarried
<1>12. QED BY <1>2, <1>3, <1>4, <1>5, <1>6, <1>7, <1>8, <1>9, <1>10, <1>11 DEF Next, Progress

-----------------------------------------------------------------------------
(* Theorems. *)

\* The three invariants, in every reachable state.
THEOREM InputInvariant == Spec => [](CallsInv /\ HitsInv /\ InputInv)
<1>1. Init => CallsInv /\ HitsInv /\ InputInv
  BY CallsInitial, HitsInitial, InputInitial
<1>2. CallsInv /\ HitsInv /\ InputInv /\ [Next]_vars => (CallsInv /\ HitsInv /\ InputInv)'
  BY CallsStep, HitsStep, InputStep
<1>3. QED BY <1>1, <1>2, PTL DEF Spec

\* No wake-up is lost and none is left over (terminal.c:646, 682, 699), and one task
\* at most is inside s_TermMutex, however the calls of the three tasks interleave.
THEOREM EventsAreExact == Spec => []EventsExact
<1>1. CallsInv /\ HitsInv /\ InputInv => EventsExact
  <2>1. SUFFICES ASSUME CallsInv, HitsInv, InputInv PROVE EventsExact
    OBVIOUS
  <2>2. \A t, u \in inside : t = u /\ mutex = 1
    BY <2>1 DEF CallsInv
  <2>3. HasEntered({"Getch"}) \/ (hitEvent = 0 <=> ~hits.empty)
    BY <2>1 DEF HitsInv
  <2>4. ~fault => spoilt \/ HasEntered({"GetLine", "GetChar"}) \/ (lineEvent = 0 <=> input.now # 0)
    BY <2>1 DEF InputInv, LineEventRight, Reading
  <2>5. QED BY <2>2, <2>3, <2>4 DEF EventsExact
<1>2. QED BY InputInvariant, <1>1, PTL

\* What is read is what was entered, in order (terminal.c:640).
THEOREM ReadsAreInOrder == Spec => []ReadsInOrder
<1>1. InputInv => ReadsInOrder
  BY DEF InputInv, ReadsInOrder
<1>2. QED BY InputInvariant, <1>1, PTL

\* An assertion fails only when the input is full, or after a line was taken in
\* front of another (terminal.c:323, 634).
THEOREM FaultsAreOnlyFull == Spec => []FaultsOnlyFull
<1>1. InputInv => FaultsOnlyFull
  BY DEF InputInv, FaultsOnlyFull
<1>2. QED BY InputInvariant, <1>1, PTL
=============================================================================
