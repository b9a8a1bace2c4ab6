--------------------------- MODULE KeyboardProofs ---------------------------
(***************************************************************************)
(* That the terminal is told what the user types and the kernel's keys and *)
(* locks follow the keyboard's, for any set of keys, any size of the       *)
(* interrupt queue and any number of key presses; and that the lights show *)
(* the locks.  The invariant is a run: the bytes that are on their way,    *)
(* taken one by one, lead the kernel from what it knows to what the user   *)
(* knows, and use up what the terminal has still to be told.               *)
(***************************************************************************)
EXTENDS Keyboard, QueueProofs

\* The bytes a keyboard sends, and the words of the interrupt queue
Bytes == {b \in 0 .. 255 : b < 128 => b <= 83}
QueueWords == Bytes \cup {b + FLAG : b \in Bytes}

Prefixes == [extern : BOOLEAN, skip : 0 .. 2]

Tellings == (DOMAIN Scan) \X BOOLEAN

\* What the kernel knows of the keys, and what it has still to tell the terminal.
States == [prefix : Prefixes, pushed : SUBSET (0 .. TableSize - 1), locks : SUBSET LockKeys, shift : BOOLEAN,
           owed : Seq(Tellings)]

Now == [prefix |-> prefix, pushed |-> pushed, locks |-> locks, shift |-> shift, owed |-> owed]

\* What csAssembleScanCodeToKeyCode makes of byte b in state s: whether it completes a code,
\* which, whether the key goes down, and what is kept for the next byte.
Completes(s, b) == s.prefix.skip = 1 \/ (s.prefix.skip = 0 /\ (s.prefix.extern \/ b \notin {224, 225}))
CodeIn(s, b) == IF s.prefix.skip > 0 THEN KeyCode["pause"] ELSE CodeOf(b, s.prefix.extern)
Down(s, b) == s.prefix.skip > 0 \/ b < 128
PrefixAfter(s, b) ==
    IF s.prefix.skip > 0 THEN [s.prefix EXCEPT !.skip = @ - 1]
    ELSE IF s.prefix.extern THEN [s.prefix EXCEPT !.extern = FALSE]
    ELSE IF b = 225 THEN [s.prefix EXCEPT !.skip = 2]
    ELSE IF b = 224 THEN [s.prefix EXCEPT !.extern = TRUE]
    ELSE s.prefix

\* The key as the terminal is told of it in state s
Shows(s, k) ==
    <<k, /\ k \in TwoFaced
         /\ IF KeyCode[k] \in 71 .. 83 THEN "num" \in s.locks
            ELSE IF k = "a" THEN IF "caps" \in s.locks THEN ~s.shift ELSE s.shift
            ELSE s.shift>>

\* The state after key k with code c, and after byte b
Keyed(s, p, c, k, down) ==
    [prefix |-> p,
     pushed |-> IF down THEN s.pushed \cup {c} ELSE s.pushed \ {c},
     locks |-> IF k \in LockKeys /\ ~down THEN Toggle(s.locks, k) ELSE s.locks,
     shift |-> IF k \in ShiftKeys THEN down \/ \E o \in ShiftKeys \ {k} : KeyCode[o] \in s.pushed ELSE s.shift,
     owed |-> IF k # "none" /\ down THEN Tail(s.owed) ELSE s.owed]

Feeds(s, b, t) ==
    IF Completes(s, b)
    THEN LET c == CodeIn(s, b)
             k == KeyAt(c)
         IN  /\ t = Keyed(s, PrefixAfter(s, b), c, k, Down(s, b))
             /\ k # "none" /\ Down(s, b) => s.owed # <<>> /\ Head(s.owed) = Shows(s, k)
    ELSE t = [prefix |-> PrefixAfter(s, b), pushed |-> s.pushed, locks |-> s.locks, shift |-> s.shift, owed |-> s.owed]

\* A word of the queue takes the kernel from s to t.
Takes(s, w, t) == IF w < FLAG THEN t = s ELSE Feeds(s, w % FLAG, t)

\* The words of seq take it from s to t.
Run(s, seq, t) ==
    \E trace \in [0 .. Len(seq) -> States] :
        /\ trace[0] = s /\ trace[Len(seq)] = t
        /\ \A i \in 1 .. Len(seq) : Takes(trace[i - 1], seq[i], trace[i])

\* What the controller holds, as the words it becomes; an ACK becomes none.
Word(b) == IF b = ACK THEN 0 ELSE b + FLAG
Words(seq) == [i \in 1 .. Len(seq) |-> Word(seq[i])]

\* The kernel knows what the user knows, who holds the keys h and has set the locks l.
Agrees(u, h, l) ==
    /\ u.prefix = [extern |-> FALSE, skip |-> 0] /\ u.owed = <<>>
    /\ u.locks = l /\ u.shift = (h \cap ShiftKeys # {})
    /\ u.pushed \ {KeyCode["pause"]} = {KeyCode[k] : k \in h}

KeysType ==
    /\ wire \in Seq(Bytes) /\ port \in Bytes /\ IsRing(queue, QueueWords)
    /\ Now \in States /\ held \subseteq Keys \ {"pause"} /\ locked \subseteq LockKeys
    /\ overrun \in BOOLEAN /\ drained \in BOOLEAN /\ astray \in BOOLEAN
    /\ expects \in BOOLEAN /\ failed \in BOOLEAN /\ hasty \in BOOLEAN

KeysFollow ==
    ~overrun /\ ~drained =>
        /\ ~astray
        /\ \E m \in States : \E u \in States :
                Run(Now, Contents(queue), m) /\ Run(m, Words(wire), u) /\ Agrees(u, held, locked)

\* The keyboard is sent the command and the lights in turns, whatever the ACKs are that the
\* kernel goes on after, unless an update or a wait gave up.
LightsFollow ==
    LET next == IF input # None THEN input ELSE working
        waits == IF next = None THEN expects ELSE next = LED
    IN  ~failed /\ ~hasty =>
            /\ working # None => (working = LED) = ~expects
            /\ input # None => (input = LED) = ~(IF working # None THEN working = LED ELSE expects)
            /\ waits <=> update \in {"ack", "send"}
            /\ update \in {"ack lights", "no"} => locks = IF next = None THEN lights ELSE LightsOf(next)

KeyboardInv == KeysType /\ KeysFollow /\ LightsFollow

-----------------------------------------------------------------------------
(* Runs. *)

\* No word changes nothing.
LEMMA RunNone ==
    ASSUME NEW s \in States
    PROVE  /\ Run(s, <<>>, s)
           /\ \A t : Run(s, <<>>, t) => t = s
<1>1. Len(<<>>) = 0
  OBVIOUS
<1>2. Run(s, <<>>, s)
  <2> DEFINE f == [i \in 0 .. 0 |-> s]
  <2>1. f \in [0 .. 0 -> States] /\ f[0] = s
    OBVIOUS
  <2> HIDE DEF f
  <2>2. QED BY <1>1, <2>1 DEF Run
<1>3. ASSUME NEW t, Run(s, <<>>, t) PROVE t = s
  BY <1>1, <1>3 DEF Run
<1>4. QED BY <1>2, <1>3

\* A run begins with its first word.
LEMMA RunFirst ==
    ASSUME NEW D, NEW W \in Seq(D), W # <<>>, NEW s \in States, NEW t, Run(s, W, t)
    PROVE  \E m \in States : Takes(s, Head(W), m) /\ Run(m, Tail(W), t)
<1> DEFINE n == Len(W)
           V == Tail(W)
<1>1. n \in Nat /\ n > 0 /\ V \in Seq(D) /\ Len(V) = n - 1 /\ \A i \in 1 .. n - 1 : V[i] = W[i + 1]
  BY LenProperties, HeadTailProperties, EmptySeq
<1>2. Head(W) = W[1]
  OBVIOUS
<1>3. PICK f \in [0 .. n -> States] : f[0] = s /\ f[n] = t /\ \A i \in 1 .. n : Takes(f[i - 1], W[i], f[i])
  BY DEF Run
<1> HIDE DEF V
<1> DEFINE k == n - 1
           g == [i \in 0 .. k |-> f[i + 1]]
<1>4. k \in Nat /\ g \in [0 .. k -> States] /\ \A i \in 0 .. k : g[i] = f[i + 1]
  BY <1>1
<1> HIDE DEF g
<1>5. g[0] = f[1] /\ g[k] = t
  BY <1>1, <1>3, <1>4
<1>6. \A i \in 1 .. k : Takes(g[i - 1], V[i], g[i])
  <2>1. SUFFICES ASSUME NEW i \in 1 .. k PROVE Takes(g[i - 1], V[i], g[i])
    OBVIOUS
  <2> DEFINE j == i + 1
  <2>2. j \in 1 .. n /\ j - 1 = i /\ i - 1 \in 0 .. k /\ i \in 0 .. k /\ i - 1 + 1 = i
    BY <1>1, <2>1
  <2>3. V[i] = W[j] /\ g[i - 1] = f[j - 1] /\ g[i] = f[j]
    BY <1>1, <1>4, <2>1, <2>2
  <2> HIDE DEF j
  <2>4. Takes(f[j - 1], W[j], f[j])
    BY <1>3, <2>2
  <2>5. QED BY <2>3, <2>4
<1>7. f[1] \in States /\ Takes(s, W[1], f[1])
  <2>1. 1 \in 1 .. n /\ 1 \in 0 .. n /\ 1 - 1 = 0
    BY <1>1
  <2>2. Takes(f[1 - 1], W[1], f[1])
    BY <1>3, <2>1
  <2>3. QED BY <1>3, <2>1, <2>2
<1>8. Run(f[1], V, t)
  BY <1>1, <1>4, <1>5, <1>6 DEF Run
<1>9. QED BY <1>2, <1>7, <1>8 DEF V

\* A run goes on with one word more.
LEMMA RunNext ==
    ASSUME NEW D, NEW W \in Seq(D), NEW w \in D, NEW s \in States, NEW m, Run(s, W, m),
           NEW t \in States, Takes(m, w, t)
    PROVE  Run(s, Append(W, w), t)
<1> DEFINE n == Len(W)
           V == Append(W, w)
           k == n + 1
<1>1. n \in Nat /\ V \in Seq(D) /\ Len(V) = k /\ V[k] = w /\ \A i \in 1 .. n : V[i] = W[i]
  BY LenProperties, AppendProperties
<1>2. PICK f \in [0 .. n -> States] : f[0] = s /\ f[n] = m /\ \A i \in 1 .. n : Takes(f[i - 1], W[i], f[i])
  BY DEF Run
<1> HIDE DEF V
<1> DEFINE g == [i \in 0 .. k |-> IF i = k THEN t ELSE f[i]]
<1>3. k \in Nat /\ g \in [0 .. k -> States] /\ g[k] = t /\ \A i \in 0 .. n : g[i] = f[i]
  BY <1>1
<1> HIDE DEF g
<1>4. g[0] = s
  BY <1>1, <1>2, <1>3
<1>5. \A i \in 1 .. k : Takes(g[i - 1], V[i], g[i])
  <2>1. SUFFICES ASSUME NEW i \in 1 .. k PROVE Takes(g[i - 1], V[i], g[i])
    OBVIOUS
  <2>2. CASE i = k
    <3>1. i - 1 = n /\ n \in 0 .. n
      BY <1>1, <2>2
    <3>2. g[i - 1] = m
      BY <1>2, <1>3, <3>1
    <3>3. QED BY <1>1, <1>3, <2>2, <3>2
  <2>3. CASE i # k
    <3>1. i \in 1 .. n /\ i - 1 \in 0 .. n /\ i \in 0 .. n
      BY <1>1, <2>1, <2>3
    <3>2. Takes(f[i - 1], W[i], f[i])
      BY <1>2, <3>1
    <3>3. QED BY <1>1, <1>3, <3>1, <3>2
  <2>4. QED BY <2>2, <2>3
<1>6. Run(s, V, t)
  BY <1>1, <1>3, <1>4, <1>5 DEF Run
<1>7. QED BY <1>6 DEF V

\* The state with more to tell
More(s, x) ==
    [prefix |-> s.prefix, pushed |-> s.pushed, locks |-> s.locks, shift |-> s.shift, owed |-> s.owed \o x]

\* What is told first does not depend on what is told after.
FrontOf(q, x) == Tail(q \o x) = Tail(q) \o x /\ Head(q \o x) = Head(q) /\ q \o x # <<>>

\* The front of a sequence stays when something is put behind it.
LEMMA FrontIs ==
    ASSUME NEW S, NEW q \in Seq(S), NEW x \in Seq(S), q # <<>>
    PROVE  FrontOf(q, x)
<1> DEFINE v == q \o x
           a == Tail(v)
           r == Tail(q)
           b == r \o x
<1>1. Len(q) \in Nat /\ Len(x) \in Nat /\ Len(q) > 0
  BY LenProperties, EmptySeq
<1>2. /\ v \in Seq(S) /\ Len(v) = Len(q) + Len(x)
      /\ \A i \in 1 .. Len(q) + Len(x) : v[i] = IF i <= Len(q) THEN q[i] ELSE x[i - Len(q)]
  BY ConcatProperties
<1>3. r \in Seq(S) /\ Len(r) = Len(q) - 1 /\ \A i \in 1 .. Len(q) - 1 : r[i] = q[i + 1]
  BY HeadTailProperties
<1> HIDE DEF v, r
<1>4. /\ b \in Seq(S) /\ Len(b) = Len(r) + Len(x)
      /\ \A i \in 1 .. Len(r) + Len(x) : b[i] = IF i <= Len(r) THEN r[i] ELSE x[i - Len(r)]
  BY <1>3, ConcatProperties
<1>5. v # <<>>
  BY <1>1, <1>2, EmptySeq
<1>6. a \in Seq(S) /\ Len(a) = Len(v) - 1 /\ \A i \in 1 .. Len(v) - 1 : a[i] = v[i + 1]
  BY <1>2, <1>5, HeadTailProperties
<1> HIDE DEF a, b
<1>7. Len(a) = Len(b) /\ Len(a) = Len(q) - 1 + Len(x)
  BY <1>1, <1>2, <1>3, <1>4, <1>6
<1>8. \A i \in 1 .. Len(a) : a[i] = b[i]
  <2>1. SUFFICES ASSUME NEW i \in 1 .. Len(a) PROVE a[i] = b[i]
    OBVIOUS
  <2>2. a[i] = v[i + 1] /\ i + 1 \in 1 .. Len(q) + Len(x)
    BY <1>1, <1>2, <1>6, <1>7
  <2>3. CASE i <= Len(q) - 1
    <3>1. v[i + 1] = q[i + 1]
      BY <1>1, <1>2, <2>2, <2>3
    <3>2. b[i] = r[i] /\ r[i] = q[i + 1]
      BY <1>1, <1>3, <1>4, <1>7, <2>3
    <3>3. QED BY <2>2, <3>1, <3>2
  <2>4. CASE ~(i <= Len(q) - 1)
    <3>1. v[i + 1] = x[i + 1 - Len(q)]
      BY <1>1, <1>2, <2>2, <2>4
    <3>2. b[i] = x[i - (Len(q) - 1)]
      BY <1>1, <1>3, <1>4, <1>7, <2>4
    <3>3. i + 1 - Len(q) = i - (Len(q) - 1)
      BY <1>1
    <3>4. QED BY <2>2, <3>1, <3>2, <3>3
  <2>5. QED BY <2>3, <2>4
<1>9. a = b
  BY <1>4, <1>6, <1>7, <1>8, SeqEqual
<1>10. Head(v) = Head(q)
  <2>1. Head(v) = v[1] /\ Head(q) = q[1]
    OBVIOUS
  <2>2. v[1] = q[1]
    BY <1>1, <1>2
  <2>3. QED BY <2>1, <2>2
<1>11. QED BY <1>5, <1>9, <1>10 DEF FrontOf, v, r, a, b

\* A step of the kernel does not depend on what is told after.
LEMMA TakesMore ==
    ASSUME NEW s \in States, NEW w, NEW t, Takes(s, w, t), NEW x \in Seq(Tellings)
    PROVE  Takes(More(s, x), w, More(t, x))
<1> DEFINE n == More(s, x)
           b == w % FLAG
<1>1. /\ s = [prefix |-> s.prefix, pushed |-> s.pushed, locks |-> s.locks, shift |-> s.shift, owed |-> s.owed]
      /\ s.owed \in Seq(Tellings)
  BY DEF States
<1>2. n = [prefix |-> s.prefix, pushed |-> s.pushed, locks |-> s.locks, shift |-> s.shift, owed |-> s.owed \o x]
  BY DEF More
<1>3. n.prefix = s.prefix /\ n.pushed = s.pushed /\ n.locks = s.locks /\ n.shift = s.shift /\ n.owed = s.owed \o x
  BY <1>2
<1> HIDE DEF n
<1>4. CASE w < FLAG
  BY <1>4 DEF Takes, n
<1>5. CASE ~(w < FLAG)
  <2> DEFINE c == CodeIn(s, b)
             k == KeyAt(c)
             p == PrefixAfter(s, b)
             d == Down(s, b)
  <2>1. Feeds(s, b, t)
    BY <1>5 DEF Takes
  <2>2. CodeIn(n, b) = c /\ PrefixAfter(n, b) = p /\ (Down(n, b) <=> d) /\ (Completes(n, b) <=> Completes(s, b))
    BY <1>3 DEF CodeIn, PrefixAfter, Down, Completes
  <2>3. Shows(n, k) = Shows(s, k)
    BY <1>3 DEF Shows
  <2>4. CASE Completes(s, b)
    <3>1. /\ t = Keyed(s, p, c, k, d)
          /\ k # "none" /\ d => s.owed # <<>> /\ Head(s.owed) = Shows(s, k)
      BY <2>1, <2>4 DEF Feeds
    <3>2. d \in BOOLEAN /\ Down(n, b) \in BOOLEAN
      BY DEF Down
    <3>3. Down(n, b) = d
      BY <2>2, <3>2
    <3>4. s.owed # <<>> => /\ Tail(s.owed \o x) = Tail(s.owed) \o x
                           /\ Head(s.owed \o x) = Head(s.owed) /\ s.owed \o x # <<>>
      BY <1>1, FrontIs DEF FrontOf
    <3> HIDE DEF c, k, p, d
    <3>5. Keyed(n, p, c, k, d) = More(t, x)
      <4>1. CASE k # "none" /\ d
        BY <1>3, <3>1, <3>4, <4>1 DEF Keyed, More
      <4>2. CASE ~(k # "none" /\ d)
        BY <1>3, <3>1, <4>2 DEF Keyed, More
      <4>3. QED BY <4>1, <4>2
    <3>6. k # "none" /\ d => n.owed # <<>> /\ Head(n.owed) = Shows(n, k)
      BY <1>3, <2>3, <3>1, <3>4
    <3>7. Feeds(n, b, More(t, x))
      BY <2>2, <2>4, <3>3, <3>5, <3>6 DEF Feeds, c, k, p, d
    <3>8. QED BY <1>5, <3>7 DEF Takes, n
  <2>5. CASE ~Completes(s, b)
    <3>1. t = [prefix |-> p, pushed |-> s.pushed, locks |-> s.locks, shift |-> s.shift, owed |-> s.owed]
      BY <2>1, <2>5 DEF Feeds
    <3> HIDE DEF p
    <3>2. More(t, x) = [prefix |-> p, pushed |-> n.pushed, locks |-> n.locks, shift |-> n.shift, owed |-> n.owed]
      BY <1>3, <3>1 DEF More
    <3>3. Feeds(n, b, More(t, x))
      BY <2>2, <2>5, <3>2 DEF Feeds, p
    <3>4. QED BY <1>5, <3>3 DEF Takes, n
  <2>6. QED BY <2>4, <2>5
<1>6. QED BY <1>4, <1>5

\* A run does not depend on what is told after.
LEMMA RunMore ==
    ASSUME NEW D, NEW W \in Seq(D), NEW s, NEW t, Run(s, W, t), NEW x \in Seq(Tellings)
    PROVE  Run(More(s, x), W, More(t, x))
<1> DEFINE n == Len(W)
<1>1. n \in Nat
  BY LenProperties
<1>2. PICK f \in [0 .. n -> States] : f[0] = s /\ f[n] = t /\ \A i \in 1 .. n : Takes(f[i - 1], W[i], f[i])
  BY DEF Run
<1> DEFINE g == [i \in 0 .. n |-> More(f[i], x)]
<1>3. \A y \in States : More(y, x) \in States
  <2>1. SUFFICES ASSUME NEW y \in States PROVE More(y, x) \in States
    OBVIOUS
  <2>2. /\ y = [prefix |-> y.prefix, pushed |-> y.pushed, locks |-> y.locks, shift |-> y.shift, owed |-> y.owed]
        /\ y.prefix \in Prefixes /\ y.pushed \in SUBSET (0 .. TableSize - 1) /\ y.locks \in SUBSET LockKeys
        /\ y.shift \in BOOLEAN /\ y.owed \in Seq(Tellings)
    BY DEF States
  <2>3. y.owed \o x \in Seq(Tellings)
    BY <2>2, ConcatProperties
  <2>4. More(y, x) =
            [prefix |-> y.prefix, pushed |-> y.pushed, locks |-> y.locks, shift |-> y.shift, owed |-> y.owed \o x]
    BY DEF More
  <2>5. QED BY <2>2, <2>3, <2>4 DEF States
<1>4. g \in [0 .. n -> States] /\ \A i \in 0 .. n : g[i] = More(f[i], x)
  BY <1>2, <1>3
<1> HIDE DEF g
<1>5. g[0] = More(s, x) /\ g[n] = More(t, x)
  BY <1>1, <1>2, <1>4
<1>6. \A i \in 1 .. n : Takes(g[i - 1], W[i], g[i])
  <2>1. SUFFICES ASSUME NEW i \in 1 .. n PROVE Takes(g[i - 1], W[i], g[i])
    OBVIOUS
  <2>2. i - 1 \in 0 .. n /\ i \in 0 .. n
    BY <1>1
  <2>3. Takes(f[i - 1], W[i], f[i]) /\ f[i - 1] \in States
    BY <1>2, <2>2
  <2>4. Takes(More(f[i - 1], x), W[i], More(f[i], x))
    BY <2>3, TakesMore, Zenon
  <2>5. QED BY <1>4, <2>2, <2>4
<1>7. QED BY <1>4, <1>5, <1>6 DEF Run

-----------------------------------------------------------------------------
(* Keys and bytes. *)

Names == {"one", "a", "lshift", "rshift", "caps", "num", "scroll", "home", "del", "pause"}

\* The table has one code for each key.
LEMMA CodesAre ==
    /\ DOMAIN KeyCode = Names /\ DOMAIN Scan = Names
    /\ KeyCode["one"] = 2 /\ KeyCode["a"] = 30 /\ KeyCode["lshift"] = 42 /\ KeyCode["rshift"] = 54
    /\ KeyCode["caps"] = 58 /\ KeyCode["num"] = 69 /\ KeyCode["scroll"] = 70 /\ KeyCode["home"] = 71
    /\ KeyCode["del"] = 144 /\ KeyCode["pause"] = 145
BY DEF KeyCode, Scan, Names

\* No two keys have the same code.
LEMMA CodesDiffer ==
    /\ \A k \in Names : KeyCode[k] \in 0 .. TableSize - 1
    /\ \A j \in Names : \A k \in Names : KeyCode[j] = KeyCode[k] => j = k
<1>1. \A k \in Names : KeyCode[k] \in 0 .. TableSize - 1
  BY CodesAre DEF Names, TableSize
<1>2. \A j \in Names : \A k \in Names : KeyCode[j] = KeyCode[k] => j = k
  BY CodesAre DEF Names
<1>3. QED BY <1>1, <1>2

\* The key at the code of a key is that key.
LEMMA KeyAtIs ==
    ASSUME NEW k \in Names
    PROVE  KeyAt(KeyCode[k]) = k
<1> DEFINE c == KeyCode[k]
           j == CHOOSE i \in DOMAIN KeyCode : KeyCode[i] = c
<1>1. DOMAIN KeyCode = Names
  BY CodesAre
<1>2. \E i \in DOMAIN KeyCode : KeyCode[i] = c
  BY <1>1
<1>3. j \in DOMAIN KeyCode /\ KeyCode[j] = c
  BY <1>2
<1>4. j = k
  BY <1>1, <1>3, CodesDiffer, Zenon
<1>5. KeyAt(c) = j
  BY <1>2 DEF KeyAt
<1>6. QED BY <1>4, <1>5

\* A byte becomes a word that is told apart from what has no flag.
LEMMA WordIs ==
    ASSUME NEW b \in Bytes
    PROVE  /\ b \in 0 .. 255 /\ Word(b) \in QueueWords /\ b + FLAG \in QueueWords /\ b \in QueueWords
           /\ b < FLAG /\ ~(b + FLAG < FLAG) /\ (b + FLAG) % FLAG = b
           /\ 0 \in QueueWords /\ 0 < FLAG
           /\ b # ACK => Word(b) = b + FLAG
<1>1. b \in 0 .. 255 /\ 0 \in Bytes
  BY DEF Bytes
<1>2. b + FLAG \in QueueWords /\ b \in QueueWords /\ 0 \in QueueWords
  BY <1>1 DEF QueueWords
<1>3. Word(b) \in QueueWords /\ (b # ACK => Word(b) = b + FLAG)
  BY <1>2 DEF Word
<1>4. b < FLAG /\ ~(b + FLAG < FLAG) /\ (b + FLAG) % FLAG = b /\ 0 < FLAG
  BY <1>1 DEF FLAG
<1>5. QED BY <1>1, <1>2, <1>3, <1>4

\* The words of a sequence of bytes are taken apart as it is.
LEMMA WordsAre ==
    ASSUME NEW w \in Seq(Bytes)
    PROVE  /\ Words(w) \in Seq(QueueWords) /\ Len(Words(w)) = Len(w)
           /\ \A i \in 1 .. Len(w) : Words(w)[i] = Word(w[i])
<1> DEFINE n == Len(w)
<1>1. n \in Nat /\ \A i \in 1 .. n : w[i] \in Bytes
  BY LenProperties, ElementOfSeq
<1>2. \A i \in 1 .. n : Word(w[i]) \in QueueWords
  BY <1>1, WordIs
<1>3. [i \in 1 .. n |-> Word(w[i])] \in Seq(QueueWords)
  <2> HIDE DEF n
  <2>1. QED BY <1>1, <1>2, IsASeq
<1>4. Words(w) = [i \in 1 .. n |-> Word(w[i])]
  BY DEF Words
<1>5. Len(Words(w)) = n
  <2>1. DOMAIN Words(w) = 1 .. n
    BY <1>4
  <2>2. QED BY <1>1, <1>3, <1>4, <2>1, LenProperties
<1>6. QED BY <1>3, <1>4, <1>5

\* A byte more is a word more.
LEMMA WordsAppend ==
    ASSUME NEW w \in Seq(Bytes), NEW b \in Bytes
    PROVE  Append(w, b) \in Seq(Bytes) /\ Words(Append(w, b)) = Append(Words(w), Word(b))
<1> DEFINE v == Append(w, b)
           x == Words(v)
           y == Append(Words(w), Word(b))
           n == Len(w)
<1>1. v \in Seq(Bytes) /\ Len(v) = n + 1 /\ n \in Nat /\ v[n + 1] = b /\ \A i \in 1 .. n : v[i] = w[i]
  BY AppendProperties, LenProperties
<1> HIDE DEF v
<1>2. x \in Seq(QueueWords) /\ Len(x) = n + 1 /\ \A i \in 1 .. n + 1 : x[i] = Word(v[i])
  BY <1>1, WordsAre
<1>3. Words(w) \in Seq(QueueWords) /\ Len(Words(w)) = n /\ \A i \in 1 .. n : Words(w)[i] = Word(w[i])
  BY WordsAre
<1>4. Word(b) \in QueueWords
  BY WordIs
<1>5. y \in Seq(QueueWords) /\ Len(y) = n + 1 /\ y[n + 1] = Word(b) /\ \A i \in 1 .. n : y[i] = Words(w)[i]
  BY <1>3, <1>4, AppendProperties
<1> HIDE DEF x, y
<1>6. \A i \in 1 .. n + 1 : x[i] = y[i]
  BY <1>1, <1>2, <1>3, <1>5
<1>7. x = y
  BY <1>1, <1>2, <1>5, <1>6, SeqEqual
<1>8. QED BY <1>1, <1>7 DEF v, x, y

\* A byte less is a word less.
LEMMA WordsTail ==
    ASSUME NEW w \in Seq(Bytes), w # <<>>
    PROVE  /\ Head(w) \in Bytes /\ Tail(w) \in Seq(Bytes) /\ Words(w) # <<>>
           /\ Head(Words(w)) = Word(Head(w)) /\ Tail(Words(w)) = Words(Tail(w))
<1> DEFINE v == Tail(w)
           x == Words(v)
           z == Words(w)
           y == Tail(z)
           n == Len(w)
<1>1. /\ n \in Nat /\ n > 0 /\ v \in Seq(Bytes) /\ Len(v) = n - 1
      /\ (\A i \in 1 .. n - 1 : v[i] = w[i + 1]) /\ Head(w) \in Bytes
  BY HeadTailProperties, LenProperties, EmptySeq
<1>2. Head(w) = w[1]
  OBVIOUS
<1> HIDE DEF v
<1>3. x \in Seq(QueueWords) /\ Len(x) = n - 1 /\ \A i \in 1 .. n - 1 : x[i] = Word(v[i])
  BY <1>1, WordsAre
<1>4. z \in Seq(QueueWords) /\ Len(z) = n /\ \A i \in 1 .. n : z[i] = Word(w[i])
  BY WordsAre
<1> HIDE DEF x, z
<1>5. z # <<>>
  BY <1>1, <1>4, EmptySeq
<1>6. y \in Seq(QueueWords) /\ Len(y) = n - 1 /\ \A i \in 1 .. n - 1 : y[i] = z[i + 1]
  BY <1>4, <1>5, HeadTailProperties
<1>7. Head(z) = z[1] /\ z[1] = Word(w[1])
  BY <1>1, <1>4
<1> HIDE DEF y
<1>8. \A i \in 1 .. n - 1 : x[i] = y[i]
  <2>1. SUFFICES ASSUME NEW i \in 1 .. n - 1 PROVE x[i] = y[i]
    OBVIOUS
  <2>2. i + 1 \in 1 .. n
    BY <1>1
  <2>3. QED BY <1>1, <1>3, <1>4, <1>6, <2>2
<1>9. x = y
  BY <1>1, <1>3, <1>6, <1>8, SeqEqual
<1>10. QED BY <1>1, <1>2, <1>5, <1>7, <1>9 DEF v, x, y, z

-----------------------------------------------------------------------------
(* What becomes of the bytes of a key. *)

\* What is kept between two bytes stays what it can be.
LEMMA PrefixStays ==
    ASSUME NEW s \in States, NEW b
    PROVE  PrefixAfter(s, b) \in Prefixes
<1> DEFINE p == s.prefix
<1>1. p \in Prefixes
  BY DEF States
<1>2. p = [extern |-> p.extern, skip |-> p.skip] /\ p.extern \in BOOLEAN /\ p.skip \in 0 .. 2
  BY <1>1 DEF Prefixes
<1> HIDE DEF p
<1>3. CASE p.skip > 0
  <2> DEFINE n == p.skip - 1
  <2>1. n \in 0 .. 2
    BY <1>2, <1>3
  <2> HIDE DEF n
  <2>2. [p EXCEPT !.skip = n] = [extern |-> p.extern, skip |-> n]
    BY <1>2
  <2>3. [p EXCEPT !.skip = n] \in Prefixes
    BY <1>2, <2>1, <2>2 DEF Prefixes
  <2>4. QED BY <1>3, <2>3 DEF PrefixAfter, p, n
<1>4. CASE ~(p.skip > 0)
  <2>1. [p EXCEPT !.extern = FALSE] \in Prefixes /\ [p EXCEPT !.extern = TRUE] \in Prefixes
    BY <1>1 DEF Prefixes
  <2>2. [p EXCEPT !.skip = 2] \in Prefixes
    <3> DEFINE n == 2
    <3>1. n \in 0 .. 2
      OBVIOUS
    <3> HIDE DEF n
    <3>2. [p EXCEPT !.skip = n] = [extern |-> p.extern, skip |-> n]
      BY <1>2
    <3>3. [p EXCEPT !.skip = n] \in Prefixes
      BY <1>2, <3>1, <3>2 DEF Prefixes
    <3>4. QED BY <3>3 DEF n
  <2>3. QED BY <1>1, <1>4, <2>1, <2>2 DEF PrefixAfter, p
<1>5. QED BY <1>3, <1>4

\* A code that goes down has a place in the table.
LEMMA CodeFits ==
    ASSUME NEW s \in States, NEW b \in Bytes, Down(s, b)
    PROVE  CodeIn(s, b) \in 0 .. TableSize - 1
<1>1. b \in 0 .. 255 /\ (b < 128 => b <= 83)
  BY DEF Bytes
<1>2. CASE s.prefix.skip > 0
  BY <1>2, CodesAre DEF CodeIn, TableSize
<1>3. CASE ~(s.prefix.skip > 0)
  <2>1. b < 128
    BY <1>3 DEF Down
  <2>2. b \in 0 .. 83 /\ b % 128 = b
    BY <1>1, <2>1
  <2>3. QED BY <1>3, <2>2 DEF CodeIn, CodeOf, TableSize
<1>4. QED BY <1>2, <1>3

\* A byte leads from one state to another.
LEMMA FeedsStays ==
    ASSUME NEW s \in States, NEW b \in Bytes, NEW t, Feeds(s, b, t)
    PROVE  t \in States
<1> DEFINE p == PrefixAfter(s, b)
           c == CodeIn(s, b)
           d == Down(s, b)
           k == KeyAt(c)
<1>1. /\ s.pushed \in SUBSET (0 .. TableSize - 1) /\ s.locks \in SUBSET LockKeys
      /\ s.shift \in BOOLEAN /\ s.owed \in Seq(Tellings)
  BY DEF States
<1>2. p \in Prefixes
  BY PrefixStays
<1>3. d => c \in 0 .. TableSize - 1
  BY CodeFits
<1>4. d \in BOOLEAN
  BY DEF Down
<1>5. CASE Completes(s, b)
  <2>1. t = Keyed(s, p, c, k, d) /\ (k # "none" /\ d => s.owed # <<>>)
    BY <1>5 DEF Feeds
  <2> HIDE DEF p, c, d, k
  <2>2. t.prefix = p
    BY <2>1 DEF Keyed
  <2>3. t.pushed \in SUBSET (0 .. TableSize - 1)
    BY <1>1, <1>3, <2>1 DEF Keyed
  <2>4. t.locks \in SUBSET LockKeys
    BY <1>1, <2>1 DEF Keyed, Toggle
  <2>5. t.shift \in BOOLEAN
    BY <1>1, <1>4, <2>1 DEF Keyed
  <2>6. t.owed \in Seq(Tellings)
    <3>1. s.owed # <<>> => Tail(s.owed) \in Seq(Tellings)
      BY <1>1, HeadTailProperties
    <3>2. t.owed = IF k # "none" /\ d THEN Tail(s.owed) ELSE s.owed
      BY <2>1 DEF Keyed
    <3>3. QED BY <1>1, <2>1, <3>1, <3>2
  <2>7. t = [prefix |-> t.prefix, pushed |-> t.pushed, locks |-> t.locks, shift |-> t.shift, owed |-> t.owed]
    BY <2>1 DEF Keyed
  <2>8. QED BY <1>2, <2>2, <2>3, <2>4, <2>5, <2>6, <2>7 DEF States
<1>6. CASE ~Completes(s, b)
  <2>1. t = [prefix |-> p, pushed |-> s.pushed, locks |-> s.locks, shift |-> s.shift, owed |-> s.owed]
    BY <1>6 DEF Feeds
  <2>2. QED BY <1>1, <1>2, <2>1 DEF States
<1>7. QED BY <1>5, <1>6

\* A byte that the controller is given makes the run longer.
LEMMA RunByte ==
    ASSUME NEW v \in Seq(Bytes), NEW b \in Bytes, b # ACK, NEW s \in States, NEW m \in States,
           Run(s, Words(v), m), NEW t, Feeds(m, b, t)
    PROVE  t \in States /\ Append(v, b) \in Seq(Bytes) /\ Run(s, Words(Append(v, b)), t)
<1>1. t \in States
  BY FeedsStays
<1>2. Append(v, b) \in Seq(Bytes) /\ Words(Append(v, b)) = Append(Words(v), Word(b))
  BY WordsAppend
<1>3. Words(v) \in Seq(QueueWords) /\ Word(b) \in QueueWords
  BY WordsAre, WordIs
<1>4. Takes(m, Word(b), t)
  <2>1. Word(b) = b + FLAG /\ ~(b + FLAG < FLAG) /\ (b + FLAG) % FLAG = b
    BY WordIs
  <2>2. Takes(m, b + FLAG, t)
    BY <2>1 DEF Takes
  <2>3. QED BY <2>1, <2>2
<1>5. Run(s, Append(Words(v), Word(b)), t)
  BY <1>1, <1>3, <1>4, RunNext
<1>6. QED BY <1>1, <1>2, <1>5

\* The bytes of the keys
LEMMA ScansAre ==
    /\ \A k \in Names \ {"del", "pause"} :
           /\ Scan[k] = <<KeyCode[k]>> /\ Released(k) = <<KeyCode[k] + 128>>
           /\ KeyCode[k] \in 0 .. 83 /\ KeyCode[k] \in Bytes /\ KeyCode[k] + 128 \in Bytes
           /\ KeyCode[k] + 128 \notin {224, 225, ACK}
    /\ Scan["del"] = <<224, 83>> /\ Released("del") = <<224, 211>>
    /\ Scan["pause"] = <<225, 29, 69, 225, 157, 197>> /\ Released("pause") = <<>>
    /\ {224, 225, 83, 211, 29, 69, 157, 197} \subseteq Bytes \ {ACK}
<1>1. /\ Scan["one"] = <<2>> /\ Scan["a"] = <<30>> /\ Scan["lshift"] = <<42>> /\ Scan["rshift"] = <<54>>
      /\ Scan["caps"] = <<58>> /\ Scan["num"] = <<69>> /\ Scan["scroll"] = <<70>> /\ Scan["home"] = <<71>>
      /\ Scan["del"] = <<224, 83>> /\ Scan["pause"] = <<225, 29, 69, 225, 157, 197>>
  BY DEF Scan
<1>2. \A k \in Names \ {"del", "pause"} : Scan[k] = <<KeyCode[k]>> /\ KeyCode[k] \in 0 .. 83
  BY <1>1, CodesAre DEF Names
<1>3. \A n \in 0 .. 83 : n \in Bytes /\ n + 128 \in Bytes /\ n + 128 \notin {224, 225, ACK}
  BY DEF Bytes, ACK
<1>4. ASSUME NEW k \in Names \ {"del", "pause"} PROVE Released(k) = <<KeyCode[k] + 128>>
  <2> DEFINE c == KeyCode[k]
  <2>1. Scan[k] = <<c>> /\ Len(<<c>>) = 1 /\ k # "pause"
    BY <1>2
  <2> HIDE DEF c
  <2>2. Released(k) = [<<c>> EXCEPT ![1] = @ + 128]
    BY <2>1 DEF Released
  <2>3. QED BY <2>2 DEF c
<1>5. Released("del") = <<224, 211>>
  <2>1. Scan["del"] = <<224, 83>> /\ Len(<<224, 83>>) = 2
    BY <1>1
  <2>2. Released("del") = [<<224, 83>> EXCEPT ![2] = @ + 128]
    BY <2>1 DEF Released
  <2>3. QED BY <2>2
<1>6. Released("pause") = <<>>
  BY DEF Released
<1>7. {224, 225, 83, 211, 29, 69, 157, 197} \subseteq Bytes \ {ACK}
  BY DEF Bytes, ACK
<1>8. ASSUME NEW k \in Names \ {"del", "pause"}
      PROVE  /\ KeyCode[k] \in Bytes /\ KeyCode[k] + 128 \in Bytes
             /\ KeyCode[k] + 128 \notin {224, 225, ACK}
  BY <1>2, <1>3, Zenon
<1>9. ASSUME NEW k \in Names \ {"del", "pause"}
      PROVE  /\ Scan[k] = <<KeyCode[k]>> /\ Released(k) = <<KeyCode[k] + 128>>
             /\ KeyCode[k] \in 0 .. 83 /\ KeyCode[k] \in Bytes /\ KeyCode[k] + 128 \in Bytes
             /\ KeyCode[k] + 128 \notin {224, 225, ACK}
  BY <1>2, <1>4, <1>8
<1>10. QED BY <1>1, <1>5, <1>6, <1>7, <1>9

-----------------------------------------------------------------------------
(* What the user does, and what the kernel will make of it. *)

\* The other Shift key is held if and only if its code is among those pushed.
LEMMA HeldIs ==
    ASSUME NEW h, h \subseteq Names \ {"pause"}, NEW s, NEW l, Agrees(s, h, l), NEW j \in Names \ {"pause"}
    PROVE  KeyCode[j] \in s.pushed <=> j \in h
<1>1. KeyCode[j] # KeyCode["pause"]
  <2>1. "pause" \in Names
    BY DEF Names
  <2>2. QED BY <2>1, CodesDiffer, Zenon
<1>2. KeyCode[j] \in s.pushed <=> KeyCode[j] \in {KeyCode[k] : k \in h}
  BY <1>1, Zenon DEF Agrees
<1>3. KeyCode[j] \in {KeyCode[k] : k \in h} => j \in h
  <2>1. SUFFICES ASSUME NEW k \in h, KeyCode[j] = KeyCode[k] PROVE j \in h
    OBVIOUS
  <2>2. j = k
    BY <2>1, CodesDiffer, Zenon
  <2>3. QED BY <2>2
<1>4. QED BY <1>2, <1>3

\* A key that goes down is held.
LEMMA PressedAgrees ==
    ASSUME NEW h, h \subseteq Names \ {"pause"}, NEW l, NEW u, Agrees(u, h, l), NEW k \in Names,
           NEW x, Tail(x) = <<>>, NEW s, s.pushed = u.pushed, s.locks = u.locks, s.shift = u.shift, s.owed = x
    PROVE  Agrees(Keyed(s, u.prefix, KeyCode[k], k, TRUE), IF k = "pause" THEN h ELSE h \cup {k}, l)
<1> DEFINE t == Keyed(s, u.prefix, KeyCode[k], k, TRUE)
           g == IF k = "pause" THEN h ELSE h \cup {k}
           z == KeyCode["pause"]
<1>1. /\ t.prefix = u.prefix /\ t.pushed = u.pushed \cup {KeyCode[k]} /\ t.locks = u.locks
      /\ t.shift = IF k \in ShiftKeys THEN TRUE ELSE u.shift
      /\ t.owed = <<>>
  <2>1. k # "none"
    BY DEF Names
  <2>2. t.shift = IF k \in ShiftKeys THEN TRUE ELSE u.shift
    BY DEF Keyed
  <2>3. QED BY <2>1, <2>2 DEF Keyed
<1> HIDE DEF t
<1>2. /\ u.prefix = [extern |-> FALSE, skip |-> 0] /\ u.locks = l /\ u.shift = (h \cap ShiftKeys # {})
      /\ u.pushed \ {z} = {KeyCode[j] : j \in h}
  BY DEF Agrees
<1>3. t.shift = (g \cap ShiftKeys # {})
  <2>1. "pause" \notin ShiftKeys
    BY DEF ShiftKeys
  <2>2. CASE k \in ShiftKeys
    <3>1. k \in g \cap ShiftKeys /\ t.shift = TRUE
      BY <1>1, <2>1, <2>2
    <3>2. QED BY <3>1
  <2>3. CASE k \notin ShiftKeys
    <3>1. g \cap ShiftKeys = h \cap ShiftKeys
      BY <2>3
    <3>2. QED BY <1>1, <1>2, <2>3, <3>1
  <2>4. QED BY <2>2, <2>3
<1>4. t.pushed \ {z} = {KeyCode[j] : j \in g}
  <2>1. CASE k = "pause"
    <3>1. t.pushed \ {z} = u.pushed \ {z}
      BY <1>1, <2>1
    <3>2. QED BY <1>2, <2>1, <3>1
  <2>2. CASE k # "pause"
    <3>1. KeyCode[k] # z
      <4>1. "pause" \in Names
        BY DEF Names
      <4>2. QED BY <2>2, <4>1, CodesDiffer, Zenon
    <3>2. t.pushed \ {z} = (u.pushed \ {z}) \cup {KeyCode[k]}
      BY <1>1, <3>1
    <3>3. {KeyCode[j] : j \in h \cup {k}} = {KeyCode[j] : j \in h} \cup {KeyCode[k]}
      OBVIOUS
    <3>4. QED BY <1>2, <2>2, <3>2, <3>3
  <2>3. QED BY <2>1, <2>2
<1>5. QED BY <1>1, <1>2, <1>3, <1>4 DEF Agrees, t

\* A key that goes up is held no more, and a lock is set the other way.
LEMMA ReleasedAgrees ==
    ASSUME NEW h, h \subseteq Names \ {"pause"}, NEW l, NEW u, Agrees(u, h, l), NEW k \in h
    PROVE  Agrees(Keyed(u, u.prefix, KeyCode[k], k, FALSE), h \ {k}, IF k \in LockKeys THEN Toggle(l, k) ELSE l)
<1> DEFINE t == Keyed(u, u.prefix, KeyCode[k], k, FALSE)
           g == h \ {k}
           z == KeyCode["pause"]
<1>1. /\ t.prefix = u.prefix /\ t.pushed = u.pushed \ {KeyCode[k]}
      /\ t.locks = (IF k \in LockKeys THEN Toggle(u.locks, k) ELSE u.locks)
      /\ t.shift = (IF k \in ShiftKeys THEN \E o \in ShiftKeys \ {k} : KeyCode[o] \in u.pushed ELSE u.shift)
      /\ t.owed = u.owed
  BY DEF Keyed
<1> HIDE DEF t
<1>2. /\ u.prefix = [extern |-> FALSE, skip |-> 0] /\ u.locks = l /\ u.shift = (h \cap ShiftKeys # {})
      /\ u.pushed \ {z} = {KeyCode[j] : j \in h} /\ u.owed = <<>>
  BY DEF Agrees
<1>3. t.shift = (g \cap ShiftKeys # {})
  <2>1. CASE k \in ShiftKeys
    <3>1. \A o \in ShiftKeys : o \in Names \ {"pause"}
      BY DEF ShiftKeys, Names
    <3>2. \A o \in ShiftKeys : KeyCode[o] \in u.pushed <=> o \in h
      BY <3>1, HeldIs, Zenon
    <3>3. (\E o \in ShiftKeys \ {k} : KeyCode[o] \in u.pushed) <=> g \cap ShiftKeys # {}
      BY <3>2
    <3>4. QED BY <1>1, <2>1, <3>3
  <2>2. CASE k \notin ShiftKeys
    <3>1. g \cap ShiftKeys = h \cap ShiftKeys
      BY <2>2
    <3>2. QED BY <1>1, <1>2, <2>2, <3>1
  <2>3. QED BY <2>1, <2>2
<1>4. t.pushed \ {z} = {KeyCode[j] : j \in g}
  <2>1. t.pushed \ {z} = {KeyCode[j] : j \in h} \ {KeyCode[k]}
    BY <1>1, <1>2
  <2>2. \A j \in h : KeyCode[j] = KeyCode[k] => j = k
    <3>1. h \subseteq Names
      OBVIOUS
    <3>2. QED BY <3>1, CodesDiffer, Zenon
  <2>3. {KeyCode[j] : j \in h} \ {KeyCode[k]} = {KeyCode[j] : j \in g}
    BY <2>2
  <2>4. QED BY <2>1, <2>3
<1>5. QED BY <1>1, <1>2, <1>3, <1>4 DEF Agrees, t

\* The terminal will be told the key as the user means it.
LEMMA MeantIs ==
    ASSUME NEW u, Agrees(u, held, locked), NEW k \in Names
    PROVE  Shows(u, k) = <<k, Meant(k)>> /\ Meant(k) \in BOOLEAN
<1> DEFINE a == /\ k \in TwoFaced
                /\ IF KeyCode[k] \in 71 .. 83 THEN "num" \in u.locks
                   ELSE IF k = "a" THEN IF "caps" \in u.locks THEN ~u.shift ELSE u.shift
                   ELSE u.shift
<1>1. u.locks = locked /\ u.shift = (held \cap ShiftKeys # {})
  BY DEF Agrees
<1>2. Meant(k) \in BOOLEAN /\ a \in BOOLEAN
  BY <1>1 DEF Meant
<1>3. a <=> Meant(k)
  <2>1. KeyCode["one"] \notin 71 .. 83 /\ KeyCode["a"] \notin 71 .. 83 /\ KeyCode["home"] \in 71 .. 83
    BY CodesAre
  <2>2. CASE k = "one"
    BY <1>1, <2>1, <2>2 DEF Meant, TwoFaced
  <2>3. CASE k = "a"
    <3>1. a <=> IF "caps" \in locked THEN ~(held \cap ShiftKeys # {}) ELSE held \cap ShiftKeys # {}
      BY <1>1, <2>1, <2>3 DEF TwoFaced
    <3>2. Meant(k) <=> ((held \cap ShiftKeys # {}) # ("caps" \in locked))
      BY <2>3 DEF Meant
    <3>3. CASE "caps" \in locked
      BY <3>1, <3>2, <3>3
    <3>4. CASE "caps" \notin locked
      BY <3>1, <3>2, <3>4
    <3>5. QED BY <3>3, <3>4
  <2>4. CASE k = "home"
    BY <1>1, <2>1, <2>4 DEF Meant, TwoFaced
  <2>5. CASE k \notin TwoFaced
    BY <2>5 DEF Meant, TwoFaced
  <2>6. QED BY <2>2, <2>3, <2>4, <2>5 DEF TwoFaced
<1>4. a = Meant(k)
  BY <1>2, <1>3
<1>5. Shows(u, k) = <<k, a>>
  BY DEF Shows
<1>6. QED BY <1>2, <1>4, <1>5

-----------------------------------------------------------------------------
(* The keys, byte by byte. *)

AtRest == [extern |-> FALSE, skip |-> 0]
AfterE0 == [extern |-> TRUE, skip |-> 0]
AfterE1(n) == [extern |-> FALSE, skip |-> n]

With(s, p) == [prefix |-> p, pushed |-> s.pushed, locks |-> s.locks, shift |-> s.shift, owed |-> s.owed]

\* What is kept for the next byte has two parts.
LEMMA PrefixIs ==
    ASSUME NEW p \in Prefixes, NEW e, NEW n
    PROVE  /\ [p EXCEPT !.skip = n] = [extern |-> p.extern, skip |-> n]
           /\ [p EXCEPT !.extern = e] = [extern |-> e, skip |-> p.skip]
BY DEF Prefixes

\* The four states that keys go through
LEMMA PrefixesAre ==
    /\ AtRest \in Prefixes /\ AfterE0 \in Prefixes /\ AfterE1(1) \in Prefixes /\ AfterE1(2) \in Prefixes
    /\ AtRest.extern = FALSE /\ AtRest.skip = 0 /\ AfterE0.extern = TRUE /\ AfterE0.skip = 0
    /\ [AtRest EXCEPT !.extern = TRUE] = AfterE0 /\ [AfterE0 EXCEPT !.extern = FALSE] = AtRest
    /\ [AtRest EXCEPT !.skip = 2] = AfterE1(2) /\ [AfterE1(2) EXCEPT !.skip = 1] = AfterE1(1)
    /\ [AfterE1(1) EXCEPT !.skip = 0] = AtRest
<1>1. AtRest \in Prefixes /\ AfterE0 \in Prefixes /\ AfterE1(1) \in Prefixes /\ AfterE1(2) \in Prefixes
  BY DEF AtRest, AfterE0, AfterE1, Prefixes
<1>2. /\ AtRest.extern = FALSE /\ AtRest.skip = 0 /\ AfterE0.skip = 0 /\ AfterE1(2).extern = FALSE
      /\ AfterE1(1).extern = FALSE /\ AfterE0.extern = TRUE
  BY DEF AtRest, AfterE0, AfterE1
<1>3. [AtRest EXCEPT !.extern = TRUE] = [extern |-> TRUE, skip |-> AtRest.skip]
  BY <1>1, PrefixIs, Zenon
<1>4. [AfterE0 EXCEPT !.extern = FALSE] = [extern |-> FALSE, skip |-> AfterE0.skip]
  BY <1>1, PrefixIs, Zenon
<1>5. [AtRest EXCEPT !.skip = 2] = [extern |-> AtRest.extern, skip |-> 2]
  BY <1>1, PrefixIs, Zenon
<1>6. [AfterE1(2) EXCEPT !.skip = 1] = [extern |-> AfterE1(2).extern, skip |-> 1]
  BY <1>1, PrefixIs, Zenon
<1>7. [AfterE1(1) EXCEPT !.skip = 0] = [extern |-> AfterE1(1).extern, skip |-> 0]
  BY <1>1, PrefixIs, Zenon
<1>8. AfterE0 = [extern |-> TRUE, skip |-> 0] /\ AtRest = [extern |-> FALSE, skip |-> 0]
  BY DEF AtRest, AfterE0
<1>9. AfterE1(1) = [extern |-> FALSE, skip |-> 1] /\ AfterE1(2) = [extern |-> FALSE, skip |-> 2]
  BY DEF AfterE1
<1>10. QED BY <1>1, <1>2, <1>3, <1>4, <1>5, <1>6, <1>7, <1>8, <1>9, Zenon

\* A byte after no other is a key, unless it is one that others follow.
LEMMA FeedsAtRest ==
    ASSUME NEW m, m.prefix = AtRest, NEW k \in Names
    PROVE  /\ Feeds(m, 224, With(m, AfterE0))
           /\ Feeds(m, 225, With(m, AfterE1(2)))
           /\ k \notin {"del", "pause"} =>
                /\ Feeds(m, KeyCode[k] + 128, Keyed(m, AtRest, KeyCode[k], k, FALSE))
                /\ m.owed # <<>> /\ Head(m.owed) = Shows(m, k)
                       => Feeds(m, KeyCode[k], Keyed(m, AtRest, KeyCode[k], k, TRUE))
<1>1. m.prefix.skip = 0 /\ m.prefix.extern = FALSE
  BY DEF AtRest
<1>2. Feeds(m, 224, With(m, AfterE0))
  <2>1. ~Completes(m, 224) /\ PrefixAfter(m, 224) = [AtRest EXCEPT !.extern = TRUE]
    BY <1>1 DEF Completes, PrefixAfter
  <2>2. [AtRest EXCEPT !.extern = TRUE] = AfterE0
    BY PrefixesAre, Zenon
  <2>3. QED BY <2>1, <2>2 DEF Feeds, With
<1>3. Feeds(m, 225, With(m, AfterE1(2)))
  <2>1. ~Completes(m, 225) /\ PrefixAfter(m, 225) = [AtRest EXCEPT !.skip = 2]
    BY <1>1 DEF Completes, PrefixAfter
  <2>2. [AtRest EXCEPT !.skip = 2] = AfterE1(2)
    BY PrefixesAre, Zenon
  <2>3. QED BY <2>1, <2>2 DEF Feeds, With
<1>4. ASSUME k \notin {"del", "pause"}
      PROVE  /\ Feeds(m, KeyCode[k] + 128, Keyed(m, AtRest, KeyCode[k], k, FALSE))
             /\ m.owed # <<>> /\ Head(m.owed) = Shows(m, k)
                    => Feeds(m, KeyCode[k], Keyed(m, AtRest, KeyCode[k], k, TRUE))
  <2> DEFINE c == KeyCode[k]
             d == c + 128
  <2>1. c \in 0 .. 83 /\ d \notin {224, 225} /\ c \notin {224, 225}
    <3>1. c \in 0 .. 83 /\ c + 128 \notin {224, 225, ACK}
      BY <1>4, ScansAre, ZenonT(40)
    <3> HIDE DEF c
    <3>2. QED BY <3>1
  <2>2. KeyAt(c) = k
    BY KeyAtIs
  <2> HIDE DEF c
  <2>3. c % 128 = c /\ d % 128 = c /\ c < 128 /\ ~(d < 128) /\ c + 0 = c
    BY <2>1
  <2> HIDE DEF d
  <2>4. /\ Completes(m, c) /\ CodeIn(m, c) = c /\ PrefixAfter(m, c) = AtRest
        /\ Down(m, c) = TRUE
    BY <1>1, <2>1, <2>3 DEF Completes, CodeIn, CodeOf, PrefixAfter, Down
  <2>5. /\ Completes(m, d) /\ CodeIn(m, d) = c /\ PrefixAfter(m, d) = AtRest
        /\ Down(m, d) = FALSE
    BY <1>1, <2>1, <2>3 DEF Completes, CodeIn, CodeOf, PrefixAfter, Down
  <2>6. Feeds(m, d, Keyed(m, AtRest, c, k, FALSE))
    BY <2>2, <2>5 DEF Feeds
  <2>7. m.owed # <<>> /\ Head(m.owed) = Shows(m, k) => Feeds(m, c, Keyed(m, AtRest, c, k, TRUE))
    BY <2>2, <2>4 DEF Feeds
  <2>8. QED BY <2>6, <2>7 DEF c, d
<1>5. QED BY <1>2, <1>3, <1>4

\* After E0 a byte is a key of the second half of the table.
LEMMA FeedsAfterE0 ==
    ASSUME NEW m, m.prefix = AfterE0
    PROVE  /\ Feeds(m, 211, Keyed(m, AtRest, KeyCode["del"], "del", FALSE))
           /\ m.owed # <<>> /\ Head(m.owed) = Shows(m, "del")
                  => Feeds(m, 83, Keyed(m, AtRest, KeyCode["del"], "del", TRUE))
<1> DEFINE c == KeyCode["del"]
<1>1. m.prefix.skip = 0 /\ m.prefix.extern = TRUE
  BY DEF AfterE0
<1>2. KeyAt(c) = "del" /\ c = 144
  <2>1. "del" \in Names
    BY DEF Names
  <2>2. QED BY <2>1, KeyAtIs, CodesAre
<1>3. [AfterE0 EXCEPT !.extern = FALSE] = AtRest
  BY PrefixesAre, Zenon
<1>4. /\ Completes(m, 83) /\ CodeIn(m, 83) = c /\ PrefixAfter(m, 83) = AtRest /\ Down(m, 83) = TRUE
      /\ Completes(m, 211) /\ CodeIn(m, 211) = c /\ PrefixAfter(m, 211) = AtRest /\ Down(m, 211) = FALSE
  BY <1>1, <1>2, <1>3 DEF Completes, CodeIn, CodeOf, PrefixAfter, Down
<1> DEFINE x == 83
           y == 211
<1>5. /\ Completes(m, x) /\ CodeIn(m, x) = c /\ PrefixAfter(m, x) = AtRest /\ Down(m, x) = TRUE
      /\ Completes(m, y) /\ CodeIn(m, y) = c /\ PrefixAfter(m, y) = AtRest /\ Down(m, y) = FALSE
      /\ KeyAt(c) = "del"
  BY <1>2, <1>4
<1> HIDE DEF c, x, y
<1>6. Feeds(m, y, Keyed(m, AtRest, c, "del", FALSE))
  BY <1>5 DEF Feeds
<1>7. m.owed # <<>> /\ Head(m.owed) = Shows(m, "del") => Feeds(m, x, Keyed(m, AtRest, c, "del", TRUE))
  BY <1>5 DEF Feeds
<1>8. QED BY <1>6, <1>7 DEF c, x, y

\* After E1 two bytes are taken for Pause whatever they are.
LEMMA FeedsAfterE1 ==
    ASSUME NEW m, NEW b
    PROVE  /\ m.prefix = AfterE1(2) => Feeds(m, b, With(m, AfterE1(1)))
           /\ m.prefix = AfterE1(1) /\ m.owed # <<>> /\ Head(m.owed) = Shows(m, "pause")
                  => Feeds(m, b, Keyed(m, AtRest, KeyCode["pause"], "pause", TRUE))
<1>1. KeyAt(KeyCode["pause"]) = "pause"
  <2>1. "pause" \in Names
    BY DEF Names
  <2>2. QED BY <2>1, KeyAtIs
<1>2. ASSUME m.prefix = AfterE1(2) PROVE Feeds(m, b, With(m, AfterE1(1)))
  <2>1. m.prefix.skip = 2 /\ m.prefix.extern = FALSE
    BY <1>2 DEF AfterE1
  <2>2. PrefixAfter(m, b) = [m.prefix EXCEPT !.skip = 1] /\ ~Completes(m, b)
    BY <2>1 DEF PrefixAfter, Completes
  <2>3. [m.prefix EXCEPT !.skip = 1] = AfterE1(1)
    BY <1>2, PrefixesAre, Zenon
  <2>4. QED BY <2>2, <2>3 DEF Feeds, With
<1>3. ASSUME m.prefix = AfterE1(1), m.owed # <<>> /\ Head(m.owed) = Shows(m, "pause")
      PROVE  Feeds(m, b, Keyed(m, AtRest, KeyCode["pause"], "pause", TRUE))
  <2>1. m.prefix.skip = 1 /\ m.prefix.extern = FALSE
    BY <1>3 DEF AfterE1
  <2>2. PrefixAfter(m, b) = [m.prefix EXCEPT !.skip = 0] /\ Completes(m, b) /\ Down(m, b) = TRUE
        /\ CodeIn(m, b) = KeyCode["pause"]
    BY <2>1 DEF PrefixAfter, Completes, Down, CodeIn
  <2>3. [m.prefix EXCEPT !.skip = 0] = AtRest
    BY <1>3, PrefixesAre, Zenon
  <2>4. QED BY <1>1, <1>3, <2>2, <2>3 DEF Feeds
<1>4. QED BY <1>2, <1>3

\* A state in which the terminal has more to be told
LEMMA MoreIs ==
    ASSUME NEW u \in States, NEW x \in Seq(Tellings)
    PROVE  /\ More(u, x) \in States
           /\ More(u, x).prefix = u.prefix /\ More(u, x).pushed = u.pushed
           /\ More(u, x).locks = u.locks /\ More(u, x).shift = u.shift
           /\ u.owed = <<>> => More(u, x).owed = x
<1>1. /\ u = [prefix |-> u.prefix, pushed |-> u.pushed, locks |-> u.locks, shift |-> u.shift, owed |-> u.owed]
      /\ u.prefix \in Prefixes /\ u.pushed \in SUBSET (0 .. TableSize - 1) /\ u.locks \in SUBSET LockKeys
      /\ u.shift \in BOOLEAN /\ u.owed \in Seq(Tellings)
  BY DEF States
<1>2. u.owed \o x \in Seq(Tellings)
  BY <1>1, ConcatProperties
<1> DEFINE y == u.owed \o x
<1>3. u.owed = <<>> => y = x
  BY ConcatEmptySeq
<1> HIDE DEF y
<1>4. More(u, x) = [prefix |-> u.prefix, pushed |-> u.pushed, locks |-> u.locks, shift |-> u.shift, owed |-> y]
  BY DEF More, y
<1>5. y \in Seq(Tellings)
  BY <1>2 DEF y
<1>6. More(u, x) \in States
  BY <1>1, <1>4, <1>5 DEF States
<1>7. QED BY <1>3, <1>4, <1>6

\* The bytes of a key that goes down run to the state with the key down.
LEMMA KeyDown ==
    ASSUME NEW v \in Seq(Bytes), NEW s \in States, NEW m \in States, Run(s, Words(v), m), m.prefix = AtRest,
           NEW k \in Names \ {"pause"}, m.owed # <<>>, Head(m.owed) = Shows(m, k)
    PROVE  LET t == Keyed(m, AtRest, KeyCode[k], k, TRUE)
           IN  t \in States /\ v \o Scan[k] \in Seq(Bytes) /\ Run(s, Words(v \o Scan[k]), t)
<1> DEFINE t == Keyed(m, AtRest, KeyCode[k], k, TRUE)
<1>1. CASE k # "del"
  <2> DEFINE c == KeyCode[k]
             w == Append(v, c)
  <2>1. Scan[k] = <<c>> /\ c \in 0 .. 83 /\ c \in Bytes
    BY <1>1, ScansAre, ZenonT(40)
  <2> HIDE DEF c
  <2>2. v \o <<c>> = Append(v, c)
    BY <2>1, AppendIsConcat
  <2>3. c # ACK
    BY <2>1 DEF ACK
  <2>4. Feeds(m, c, t)
    BY <1>1, FeedsAtRest, Zenon DEF c
  <2> HIDE DEF t
  <2>5. t \in States /\ w \in Seq(Bytes) /\ Run(s, Words(w), t)
    BY <2>1, <2>3, <2>4, RunByte, Zenon
  <2>6. QED BY <2>1, <2>2, <2>5 DEF t
<1>2. CASE k = "del"
  <2> DEFINE a == 224
             b == 83
             w == Append(v, a)
             n == With(m, AfterE0)
  <2>1. Scan[k] = <<a, b>> /\ a \in Bytes /\ b \in Bytes /\ a # ACK /\ b # ACK
    BY <1>2, ScansAre
  <2>2. Feeds(m, a, n)
    BY FeedsAtRest, Zenon
  <2>3. Feeds(n, b, t)
    <3>1. n.prefix = AfterE0 /\ n.owed = m.owed /\ Shows(n, "del") = Shows(m, "del")
          /\ Keyed(n, AtRest, KeyCode["del"], "del", TRUE) = Keyed(m, AtRest, KeyCode["del"], "del", TRUE)
      BY DEF With, Shows, Keyed
    <3> HIDE DEF n
    <3>2. n.owed # <<>> /\ Head(n.owed) = Shows(n, "del")
      BY <1>2, <3>1
    <3>3. t = Keyed(n, AtRest, KeyCode["del"], "del", TRUE)
      BY <1>2, <3>1
    <3>4. QED BY <3>1, <3>2, <3>3, FeedsAfterE0, Zenon
  <2> HIDE DEF a, b, n, t
  <2>4. n \in States /\ w \in Seq(Bytes) /\ Run(s, Words(w), n)
    BY <2>1, <2>2, RunByte, Zenon
  <2>5. t \in States /\ Append(w, b) \in Seq(Bytes) /\ Run(s, Words(Append(w, b)), t)
    BY <2>1, <2>3, <2>4, RunByte, Zenon
  <2>6. v \o <<a, b>> = Append(w, b)
    BY <2>1
  <2>7. QED BY <1>2, <2>1, <2>5, <2>6 DEF t
<1>3. QED BY <1>1, <1>2

\* The bytes of a key that goes up run to the state with the key up.
LEMMA KeyUp ==
    ASSUME NEW v \in Seq(Bytes), NEW s \in States, NEW m \in States, Run(s, Words(v), m), m.prefix = AtRest,
           NEW k \in Names \ {"pause"}
    PROVE  LET t == Keyed(m, AtRest, KeyCode[k], k, FALSE)
           IN  t \in States /\ v \o Released(k) \in Seq(Bytes) /\ Run(s, Words(v \o Released(k)), t)
<1> DEFINE t == Keyed(m, AtRest, KeyCode[k], k, FALSE)
<1>1. CASE k # "del"
  <2> DEFINE c == KeyCode[k] + 128
             w == Append(v, c)
  <2>1. Released(k) = <<c>> /\ c \notin {224, 225, ACK} /\ c \in Bytes
    BY <1>1, ScansAre, ZenonT(40)
  <2>2. Feeds(m, c, t)
    BY <1>1, FeedsAtRest, Zenon DEF c
  <2> HIDE DEF c, t
  <2>3. v \o <<c>> = Append(v, c) /\ c # ACK
    BY <2>1, AppendIsConcat
  <2>4. t \in States /\ w \in Seq(Bytes) /\ Run(s, Words(w), t)
    BY <2>1, <2>2, <2>3, RunByte, Zenon
  <2>5. QED BY <2>1, <2>3, <2>4 DEF t
<1>2. CASE k = "del"
  <2> DEFINE a == 224
             b == 211
             w == Append(v, a)
             n == With(m, AfterE0)
  <2>1. Released(k) = <<a, b>> /\ a \in Bytes /\ b \in Bytes /\ a # ACK /\ b # ACK
    BY <1>2, ScansAre
  <2>2. Feeds(m, a, n)
    BY FeedsAtRest, Zenon
  <2>3. Feeds(n, b, t)
    <3>1. n.prefix = AfterE0
          /\ Keyed(n, AtRest, KeyCode["del"], "del", FALSE) = Keyed(m, AtRest, KeyCode["del"], "del", FALSE)
      BY DEF With, Shows, Keyed
    <3> HIDE DEF n
    <3>2. t = Keyed(n, AtRest, KeyCode["del"], "del", FALSE)
      BY <1>2, <3>1
    <3>3. QED BY <3>1, <3>2, FeedsAfterE0, Zenon
  <2> HIDE DEF a, b, n, t
  <2>4. n \in States /\ w \in Seq(Bytes) /\ Run(s, Words(w), n)
    BY <2>1, <2>2, RunByte, Zenon
  <2>5. t \in States /\ Append(w, b) \in Seq(Bytes) /\ Run(s, Words(Append(w, b)), t)
    BY <2>1, <2>3, <2>4, RunByte, Zenon
  <2>6. v \o <<a, b>> = Append(w, b)
    BY <2>1
  <2>7. QED BY <1>2, <2>1, <2>5, <2>6 DEF t
<1>3. QED BY <1>1, <1>2

\* E1 and two more bytes are Pause once.
LEMMA HalfPause ==
    ASSUME NEW v \in Seq(Bytes), NEW s \in States, NEW m \in States, Run(s, Words(v), m), m.prefix = AtRest,
           NEW b \in Bytes \ {ACK}, NEW c \in Bytes \ {ACK}, NEW e, e = 225,
           m.owed # <<>>, Head(m.owed) = Shows(m, "pause"),
           NEW w, w = Append(Append(Append(v, e), b), c)
    PROVE  LET t == Keyed(m, AtRest, KeyCode["pause"], "pause", TRUE)
           IN  t \in States /\ w \in Seq(Bytes) /\ Run(s, Words(w), t)
<1> DEFINE t == Keyed(m, AtRest, KeyCode["pause"], "pause", TRUE)
           x == Append(v, e)
           y == Append(x, b)
           n == With(m, AfterE1(2))
           o == With(n, AfterE1(1))
<1>1. e \in Bytes /\ e # ACK
  BY DEF Bytes, ACK
<1>2. Feeds(m, e, n)
  <2>1. "pause" \in Names
    BY DEF Names
  <2>2. QED BY <2>1, FeedsAtRest, Zenon
<1>3. Feeds(n, b, o)
  <2>1. n.prefix = AfterE1(2)
    BY DEF With, Shows, Keyed
  <2>2. QED BY <2>1, FeedsAfterE1, Zenon
<1>4. Feeds(o, c, t)
  <2>1. n.owed = m.owed /\ Shows(n, "pause") = Shows(m, "pause")
        /\ Keyed(n, AtRest, KeyCode["pause"], "pause", TRUE) = Keyed(m, AtRest, KeyCode["pause"], "pause", TRUE)
    BY DEF With, Shows, Keyed
  <2>2. o.prefix = AfterE1(1) /\ o.owed = n.owed /\ Shows(o, "pause") = Shows(n, "pause")
        /\ Keyed(o, AtRest, KeyCode["pause"], "pause", TRUE) = Keyed(n, AtRest, KeyCode["pause"], "pause", TRUE)
    BY DEF With, Shows, Keyed
  <2> HIDE DEF n, o
  <2>3. o.owed # <<>> /\ Head(o.owed) = Shows(o, "pause")
    BY <2>1, <2>2
  <2>4. t = Keyed(o, AtRest, KeyCode["pause"], "pause", TRUE)
    BY <2>1, <2>2
  <2>5. QED BY <2>2, <2>3, <2>4, FeedsAfterE1, Zenon
<1> HIDE DEF n, o, t
<1>5. n \in States /\ x \in Seq(Bytes) /\ Run(s, Words(x), n)
  BY <1>1, <1>2, RunByte
<1> HIDE DEF x
<1>6. o \in States /\ y \in Seq(Bytes) /\ Run(s, Words(y), o)
  BY <1>3, <1>5, RunByte, Zenon
<1> HIDE DEF y
<1>7. t \in States /\ Append(y, c) \in Seq(Bytes) /\ Run(s, Words(Append(y, c)), t)
  BY <1>4, <1>6, RunByte, Zenon
<1>8. QED BY <1>7 DEF x, y, t

\* What is said once
LEMMA SaidOnce ==
    ASSUME NEW S, NEW y \in S, NEW x, x = [i \in 1 .. 1 |-> y]
    PROVE  x \in Seq(S) /\ x # <<>> /\ Head(x) = y /\ Tail(x) = <<>>
<1>1. x = <<y>>
  OBVIOUS
<1>2. <<y>> \in Seq(S) /\ <<y>> # <<>> /\ Head(<<y>>) = y /\ Tail(<<y>>) = <<>>
  OBVIOUS
<1>3. QED BY <1>1, <1>2, Zenon

\* What is said twice
LEMMA SaidTwice ==
    ASSUME NEW S, NEW y \in S, NEW x, x = [i \in 1 .. 2 |-> y]
    PROVE  /\ x \in Seq(S) /\ x # <<>> /\ Head(x) = y
           /\ Tail(x) # <<>> /\ Head(Tail(x)) = y /\ Tail(Tail(x)) = <<>>
<1>1. x = <<y, y>>
  OBVIOUS
<1>2. <<y>> # <<>> /\ Head(<<y>>) = y /\ Tail(<<y>>) = <<>>
  OBVIOUS
<1>3. <<y, y>> \in Seq(S) /\ <<y, y>> # <<>> /\ Head(<<y, y>>) = y /\ Tail(<<y, y>>) = <<y>>
  OBVIOUS
<1>4. QED BY <1>1, <1>2, <1>3, Zenon

\* Six bytes go behind the others, one by one or at once.
SixBehind(v, a, b, c, d, e, f) ==
    v \o <<a, b, c, d, e, f>> = Append(Append(Append(Append(Append(Append(v, a), b), c), d), e), f)

\* It makes no difference.
LEMMA SixAppended ==
    ASSUME NEW S, NEW v \in Seq(S), NEW a \in S, NEW b \in S, NEW c \in S, NEW d \in S, NEW e \in S, NEW f \in S
    PROVE  SixBehind(v, a, b, c, d, e, f)
<1> DEFINE w == Append(Append(Append(v, a), b), c)
           p == <<a, b, c>>
           q == <<d, e, f>>
           z == <<a, b, c, d, e, f>>
<1>1. w = v \o p /\ w \in Seq(S)
  OBVIOUS
<1>2. p \in Seq(S) /\ Len(p) = 3 /\ p[1] = a /\ p[2] = b /\ p[3] = c
  OBVIOUS
<1>3. q \in Seq(S) /\ Len(q) = 3 /\ q[1] = d /\ q[2] = e /\ q[3] = f
  OBVIOUS
<1>4. z \in Seq(S) /\ Len(z) = 6 /\ z[1] = a /\ z[2] = b /\ z[3] = c /\ z[4] = d /\ z[5] = e /\ z[6] = f
  OBVIOUS
<1> HIDE DEF w
<1>5. Append(Append(Append(w, d), e), f) = w \o q
  BY <1>1
<1> HIDE DEF p, q, z
<1>6. p \o q = z
  <2> DEFINE x == p \o q
  <2>1. /\ x \in Seq(S) /\ Len(x) = Len(p) + Len(q)
        /\ \A i \in 1 .. Len(p) + Len(q) : x[i] = IF i <= Len(p) THEN p[i] ELSE q[i - Len(p)]
    BY <1>2, <1>3, ConcatProperties
  <2> HIDE DEF x
  <2>2. x \in Seq(S) /\ Len(x) = 6 /\ \A i \in 1 .. 6 : x[i] = IF i <= 3 THEN p[i] ELSE q[i - 3]
    BY <1>2, <1>3, <2>1
  <2>3. \A i \in 1 .. 6 : x[i] = z[i]
    BY <1>2, <1>3, <1>4, <2>2
  <2>4. QED BY <1>4, <2>2, <2>3, SeqEqual DEF x
<1>7. (v \o p) \o q = v \o (p \o q)
  BY <1>2, <1>3, ConcatAssociative, SMTT(40)
<1>8. QED BY <1>1, <1>5, <1>6, <1>7 DEF w, z, SixBehind

\* The terminal is told a key and one of its two faces.
LEMMA ToldIs ==
    ASSUME NEW k \in Names, NEW b \in BOOLEAN
    PROVE  <<k, b>> \in Tellings
<1> DEFINE D == DOMAIN Scan
<1>1. k \in D
  BY CodesAre
<1>2. Tellings = D \X BOOLEAN
  BY Zenon DEF Tellings
<1> HIDE DEF D
<1>3. QED BY <1>1, <1>2

\* A key of the user's runs to a state that knows it is held, and the terminal is told of it
\* with the modifiers it has now.
LEMMA PressRun ==
    ASSUME NEW v \in Seq(Bytes), NEW m \in States, NEW u \in States, Run(m, Words(v), u),
           Agrees(u, held, locked), held \subseteq Names \ {"pause"},
           NEW k \in Names, k # "pause", NEW x, x = [i \in 1 .. 1 |-> <<k, Meant(k)>>]
    PROVE  /\ x \in Seq(Tellings) /\ v \o Scan[k] \in Seq(Bytes)
           /\ \E t \in States : Run(More(m, x), Words(v \o Scan[k]), t) /\ Agrees(t, held \cup {k}, locked)
<1> DEFINE y == <<k, Meant(k)>>
           n == More(u, x)
           s == More(m, x)
           t == Keyed(n, AtRest, KeyCode[k], k, TRUE)
<1>1. Shows(u, k) = y /\ y \in Tellings
  <2>1. Shows(u, k) = <<k, Meant(k)>> /\ Meant(k) \in BOOLEAN
    BY MeantIs, Zenon
  <2>2. <<k, Meant(k)>> \in Tellings
    BY <2>1, ToldIs, Zenon
  <2>3. QED BY <2>1, <2>2
<1> HIDE DEF y
<1>2. x \in Seq(Tellings) /\ x # <<>> /\ Head(x) = y /\ Tail(x) = <<>>
  <2>1. x = [i \in 1 .. 1 |-> y]
    BY DEF y
  <2>2. QED BY <1>1, <2>1, SaidOnce, Zenon
<1>3. u.owed = <<>> /\ u.prefix = AtRest
  BY DEF Agrees, AtRest
<1>4. /\ n \in States /\ n.prefix = AtRest /\ n.pushed = u.pushed /\ n.locks = u.locks /\ n.shift = u.shift
      /\ n.owed = x
  BY <1>2, <1>3, MoreIs
<1>5. s \in States
  BY <1>2, MoreIs
<1>6. Words(v) \in Seq(QueueWords)
  BY WordsAre
<1>7. Run(s, Words(v), n)
  BY <1>2, <1>6, RunMore, Zenon
<1>8. Agrees(t, held \cup {k}, locked)
  <2> HIDE DEF n
  <2>1. Agrees(Keyed(n, u.prefix, KeyCode[k], k, TRUE), IF k = "pause" THEN held ELSE held \cup {k}, locked)
    BY <1>2, <1>4, PressedAgrees, Zenon
  <2>2. QED BY <1>3, <2>1
<1>9. Shows(n, k) = y
  <2> HIDE DEF n
  <2>1. QED BY <1>1, <1>4 DEF Shows
<1>10. t \in States /\ v \o Scan[k] \in Seq(Bytes) /\ Run(s, Words(v \o Scan[k]), t)
  <2> HIDE DEF n, s
  <2>1. n.owed # <<>> /\ Head(n.owed) = Shows(n, k) /\ k \in Names \ {"pause"}
    BY <1>2, <1>4, <1>9
  <2>2. QED BY <1>4, <1>5, <1>7, <2>1, KeyDown, ZenonT(40)
<1> HIDE DEF t
<1>11. QED BY <1>2, <1>8, <1>10

\* Pause runs to a state in which nothing else has changed, and the terminal is told of it twice.
LEMMA PauseRun ==
    ASSUME NEW v \in Seq(Bytes), NEW m \in States, NEW u \in States, Run(m, Words(v), u),
           Agrees(u, held, locked), held \subseteq Names \ {"pause"},
           NEW k \in {"pause"}, NEW x, x = [i \in 1 .. 2 |-> <<k, Meant(k)>>]
    PROVE  /\ x \in Seq(Tellings) /\ v \o Scan[k] \in Seq(Bytes)
           /\ \E t \in States : Run(More(m, x), Words(v \o Scan[k]), t) /\ Agrees(t, held, locked)
<1> DEFINE y == <<k, Meant(k)>>
           n == More(u, x)
           s == More(m, x)
           r == Keyed(n, AtRest, KeyCode["pause"], "pause", TRUE)
           t == Keyed(r, AtRest, KeyCode["pause"], "pause", TRUE)
           z == [i \in 1 .. 1 |-> y]
           a == More(u, z)
           b == Keyed(a, AtRest, KeyCode["pause"], "pause", TRUE)
           e == 225
           b1 == 29
           b2 == 69
           b3 == 157
           b4 == 197
           w1 == Append(Append(Append(v, e), b1), b2)
           w2 == Append(Append(Append(w1, e), b3), b4)
<1>1. k = "pause" /\ k \in Names /\ "pause" \in Names /\ "pause" \notin LockKeys \cup ShiftKeys
  BY DEF Names, LockKeys, ShiftKeys
<1>2. /\ e \in Bytes /\ e = 225 /\ b1 \in Bytes \ {ACK} /\ b2 \in Bytes \ {ACK} /\ b3 \in Bytes \ {ACK}
      /\ b4 \in Bytes \ {ACK} /\ Scan[k] = <<e, b1, b2, e, b3, b4>>
  BY <1>1, ScansAre
<1> HIDE DEF e, b1, b2, b3, b4
<1>3. Shows(u, k) = y /\ y \in Tellings
  <2>1. Shows(u, k) = <<k, Meant(k)>> /\ Meant(k) \in BOOLEAN
    BY <1>1, MeantIs, Zenon
  <2>2. <<k, Meant(k)>> \in Tellings
    BY <1>1, <2>1, ToldIs, Zenon
  <2>3. QED BY <2>1, <2>2
<1> HIDE DEF y
<1>4. /\ x \in Seq(Tellings) /\ x # <<>> /\ Head(x) = y /\ Tail(x) # <<>> /\ Head(Tail(x)) = y /\ Tail(Tail(x)) = <<>>
      /\ z \in Seq(Tellings) /\ Tail(z) = <<>>
  <2>1. x = [i \in 1 .. 2 |-> y]
    BY DEF y
  <2> HIDE DEF z
  <2>2. z \in Seq(Tellings) /\ Tail(z) = <<>>
    <3>1. z = [i \in 1 .. 1 |-> y]
      BY DEF z
    <3>2. QED BY <1>3, <3>1, SaidOnce
  <2>3. /\ x \in Seq(Tellings) /\ x # <<>> /\ Head(x) = y
        /\ Tail(x) # <<>> /\ Head(Tail(x)) = y /\ Tail(Tail(x)) = <<>>
    BY <1>3, <2>1, SaidTwice
  <2>4. QED BY <2>2, <2>3
<1> HIDE DEF z
<1>5. u.owed = <<>> /\ u.prefix = AtRest
  BY DEF Agrees, AtRest
<1>6. /\ n \in States /\ n.prefix = AtRest /\ n.pushed = u.pushed /\ n.locks = u.locks /\ n.shift = u.shift
      /\ n.owed = x
  BY <1>4, <1>5, MoreIs
<1>7. /\ a \in States /\ a.pushed = u.pushed /\ a.locks = u.locks /\ a.shift = u.shift /\ a.owed = z
      /\ s \in States
  BY <1>4, <1>5, MoreIs
<1>8. Words(v) \in Seq(QueueWords)
  BY WordsAre
<1>9. Run(s, Words(v), n)
  BY <1>4, <1>8, RunMore, Zenon
<1> HIDE DEF n, s, a
<1>10. /\ r.prefix = AtRest /\ r.pushed = b.pushed /\ r.locks = b.locks /\ r.shift = b.shift
      /\ r.locks = u.locks /\ r.shift = u.shift /\ r.owed = Tail(x) /\ b.prefix = AtRest
  BY <1>1, <1>6, <1>7 DEF Keyed
<1>11. Agrees(b, held, locked)
  <2>1. Agrees(Keyed(a, u.prefix, KeyCode[k], k, TRUE), IF k = "pause" THEN held ELSE held \cup {k}, locked)
    BY <1>1, <1>4, <1>7, PressedAgrees, Zenon
  <2>2. QED BY <1>5, <2>1
<1>12. Shows(n, "pause") = y /\ Shows(r, "pause") = y
  <2> HIDE DEF r
  <2>1. QED BY <1>3, <1>6, <1>10 DEF Shows
<1>13. r \in States /\ w1 \in Seq(Bytes) /\ Run(s, Words(w1), r)
  <2>1. n.owed # <<>> /\ Head(n.owed) = Shows(n, "pause")
    BY <1>4, <1>6, <1>12
  <2>2. QED BY <1>2, <1>6, <1>7, <1>9, <2>1, HalfPause, ZenonT(40)
<1> HIDE DEF r, b, w1
<1>14. t \in States /\ w2 \in Seq(Bytes) /\ Run(s, Words(w2), t)
  <2>1. r.owed # <<>> /\ Head(r.owed) = Shows(r, "pause")
    BY <1>4, <1>10, <1>12
  <2>2. r.prefix = AtRest
    BY <1>10
  <2>3. QED BY <1>2, <1>7, <1>13, <2>1, <2>2, HalfPause, ZenonT(40)
<1>15. Agrees(t, held, locked)
  <2>1. Tail(r.owed) = <<>>
    BY <1>4, <1>10
  <2>2. Agrees(Keyed(r, b.prefix, KeyCode["pause"], "pause", TRUE),
               IF "pause" = "pause" THEN held ELSE held \cup {"pause"}, locked)
    BY <1>1, <1>10, <1>11, <2>1, PressedAgrees, Zenon
  <2>3. QED BY <1>10, <2>2
<1>16. v \o Scan[k] = w2
  <2>1. v \o <<e, b1, b2, e, b3, b4>> = w2
    <3>1. e \in Bytes /\ b1 \in Bytes /\ b2 \in Bytes /\ b3 \in Bytes /\ b4 \in Bytes
      BY <1>2
    <3>2. SixBehind(v, e, b1, b2, e, b3, b4)
      BY <3>1, SixAppended, Zenon
    <3>3. QED BY <3>2 DEF SixBehind, w1
  <2>2. QED BY <1>2, <2>1
<1> HIDE DEF t, w2
<1>17. v \o Scan[k] \in Seq(Bytes) /\ Run(s, Words(v \o Scan[k]), t)
  BY <1>14, <1>16
<1>18. QED BY <1>4, <1>14, <1>15, <1>17, Zenon DEF s

\* A key that the user releases runs to a state that knows it.
LEMMA ReleaseRun ==
    ASSUME NEW v \in Seq(Bytes), NEW m \in States, NEW u \in States, Run(m, Words(v), u),
           Agrees(u, held, locked), held \subseteq Names \ {"pause"}, NEW k \in held
    PROVE  /\ v \o Released(k) \in Seq(Bytes)
           /\ \E t \in States : /\ Run(m, Words(v \o Released(k)), t)
                                /\ Agrees(t, held \ {k}, IF k \in LockKeys THEN Toggle(locked, k) ELSE locked)
<1> DEFINE t == Keyed(u, AtRest, KeyCode[k], k, FALSE)
<1>1. u.prefix = AtRest /\ k \in Names \ {"pause"}
  BY DEF Agrees, AtRest
<1>2. t \in States /\ v \o Released(k) \in Seq(Bytes) /\ Run(m, Words(v \o Released(k)), t)
  BY <1>1, KeyUp, Zenon
<1>3. Agrees(t, held \ {k}, IF k \in LockKeys THEN Toggle(locked, k) ELSE locked)
  <2>1. Agrees(Keyed(u, u.prefix, KeyCode[k], k, FALSE), held \ {k},
               IF k \in LockKeys THEN Toggle(locked, k) ELSE locked)
    BY ReleasedAgrees, Zenon
  <2>2. QED BY <1>1, <2>1
<1> HIDE DEF t
<1>4. QED BY <1>2, <1>3

-----------------------------------------------------------------------------
(* Steps: the keys. *)

\* The invariant holds at the start.
LEMMA KeyboardStart == Init => KeyboardInv
<1> SUFFICES ASSUME Init PROVE KeyboardInv
  OBVIOUS
<1>1. 0 \in QueueWords /\ ACK \in Bytes
  BY DEF QueueWords, Bytes, FLAG, ACK
<1>2. IsRing(queue, QueueWords) /\ Contents(queue) = <<>>
  <2>1. queue = New(QueueSize) /\ QueueSize \in Nat \ {0}
    BY BoundsAssumption DEF Init
  <2>2. QED BY <1>1, <2>1, NewRing, Zenon
<1>3. Now = [prefix |-> AtRest, pushed |-> {}, locks |-> {"num"}, shift |-> FALSE, owed |-> <<>>]
  BY DEF Now, Init, AtRest
<1>4. Now \in States
  <2>1. AtRest \in Prefixes /\ {"num"} \in SUBSET LockKeys /\ <<>> \in Seq(Tellings)
        /\ {} \in SUBSET (0 .. TableSize - 1) /\ FALSE \in BOOLEAN
    BY PrefixesAre DEF LockKeys
  <2>2. QED BY <1>3, <2>1 DEF States
<1>5. wire = <<>> /\ wire \in Seq(Bytes)
  BY DEF Init
<1>6. Words(wire) = <<>>
  <2>1. Words(wire) \in Seq(QueueWords) /\ Len(Words(wire)) = 0
    BY <1>5, WordsAre
  <2>2. QED BY <2>1, EmptySeq
<1>7. Run(Now, Contents(queue), Now) /\ Run(Now, Words(wire), Now)
  BY <1>2, <1>4, <1>6, RunNone
<1>8. Agrees(Now, held, locked)
  BY <1>3 DEF Agrees, AtRest, Init
<1>9. KeysType
  BY <1>1, <1>2, <1>4, <1>5 DEF KeysType, Init, LockKeys
<1>10. KeysFollow
  BY <1>4, <1>7, <1>8 DEF KeysFollow, Init
<1>11. LightsFollow
  BY DEF LightsFollow, Init
<1>12. QED BY <1>9, <1>10, <1>11 DEF KeyboardInv

\* The keys are as before.
LEMMA KeysStay ==
    ASSUME KeysType, KeysFollow, UNCHANGED <<wire, queue, state, owed, astray, held, locked, overrun, drained>>,
           port' \in Bytes, expects' \in BOOLEAN, failed' \in BOOLEAN, hasty' \in BOOLEAN
    PROVE  KeysType' /\ KeysFollow'
<1>1. Now' = Now
  BY DEF Now, state
<1>2. QED BY <1>1 DEF KeysType, KeysFollow

\* What the user's keys send are bytes, and what the terminal is to be told are keys.
LEMMA PressType ==
    ASSUME NEW k \in Names, NEW v \in Seq(Bytes)
    PROVE  /\ v \o Scan[k] \in Seq(Bytes) /\ v \o Released(k) \in Seq(Bytes)
           /\ \A n \in 1 .. 2 : [i \in 1 .. n |-> <<k, Meant(k)>>] \in Seq(Tellings)
<1>1. Scan[k] \in Seq(Bytes) /\ Released(k) \in Seq(Bytes)
  <2>1. CASE k \notin {"del", "pause"}
    <3> DEFINE a == KeyCode[k]
               b == KeyCode[k] + 128
    <3>1. k \in Names \ {"del", "pause"}
      BY <2>1
    <3>2. Scan[k] = <<a>> /\ Released(k) = <<b>> /\ a \in Bytes /\ b \in Bytes
      BY <3>1, ScansAre, ZenonT(40)
    <3> HIDE DEF a, b
    <3>3. QED BY <3>2
  <2>2. CASE k = "del"
    <3> DEFINE a == 224
               b == 83
               c == 211
    <3>1. Scan[k] = <<a, b>> /\ Released(k) = <<a, c>> /\ a \in Bytes /\ b \in Bytes /\ c \in Bytes
      BY <2>2, ScansAre
    <3> HIDE DEF a, b, c
    <3>2. QED BY <3>1
  <2>3. CASE k = "pause"
    <3> DEFINE a == 225
               b == 29
               c == 69
               d == 157
               e == 197
    <3>1. /\ Scan[k] = <<a, b, c, a, d, e>> /\ Released(k) = <<>>
          /\ a \in Bytes /\ b \in Bytes /\ c \in Bytes /\ d \in Bytes /\ e \in Bytes
      BY <2>3, ScansAre
    <3> HIDE DEF a, b, c, d, e
    <3>2. QED BY <3>1
  <2>4. QED BY <2>1, <2>2, <2>3
<1>2. <<k, Meant(k)>> \in Tellings
  <2>1. Meant(k) \in BOOLEAN
    BY DEF Meant
  <2>2. QED BY <2>1, ToldIs, Zenon
<1>3. ASSUME NEW n \in 1 .. 2 PROVE [i \in 1 .. n |-> <<k, Meant(k)>>] \in Seq(Tellings)
  <2> DEFINE y == <<k, Meant(k)>>
  <2> HIDE DEF y
  <2>1. y \in Tellings
    BY <1>2 DEF y
  <2>2. n \in Nat /\ [i \in 1 .. n |-> y] \in Seq(Tellings)
    BY <2>1, IsASeq
  <2>3. QED BY <2>2 DEF y
<1>4. v \o Scan[k] \in Seq(Bytes) /\ v \o Released(k) \in Seq(Bytes)
  BY <1>1, ConcatProperties
<1>5. QED BY <1>3, <1>4

\* The user presses a key.
LEMMA PressKeeps ==
    ASSUME KeysType, KeysFollow, NEW k \in Keys, Press(k)
    PROVE  KeysType' /\ KeysFollow'
<1> DEFINE n == IF k = "pause" THEN 2 ELSE 1
           x == [i \in 1 .. n |-> <<k, Meant(k)>>]
<1>1. k \in Names /\ Keys \subseteq Names /\ held \subseteq Names \ {"pause"}
  BY KeysAssumption, CodesAre DEF KeysType
<1>2. /\ wire' = wire \o Scan[k] /\ held' = IF k = "pause" THEN held ELSE held \cup {k}
      /\ owed' = owed \o x
      /\ UNCHANGED <<port, expects, failed, hasty, queue, state, overrun, drained, locked, astray>>
  BY DEF Press, User, driver, losses
<1>3. n \in 1 .. 2 /\ x \in Seq(Tellings) /\ wire' \in Seq(Bytes)
  <2>1. n \in 1 .. 2 /\ wire \in Seq(Bytes)
    BY DEF KeysType
  <2> HIDE DEF n
  <2>2. QED BY <1>1, <1>2, <2>1, PressType
<1> HIDE DEF x
<1>4. Now' = More(Now, x)
  BY <1>2 DEF Now, More, state
<1>5. Now' \in States
  BY <1>3, <1>4, MoreIs DEF KeysType
<1>6. KeysType'
  BY <1>2, <1>3, <1>5 DEF KeysType
<1>7. ASSUME ~overrun, ~drained PROVE KeysFollow'
  <2>1. ~astray
    BY <1>7 DEF KeysFollow
  <2>2. PICK m \in States, u \in States :
            Run(Now, Contents(queue), m) /\ Run(m, Words(wire), u) /\ Agrees(u, held, locked)
    BY <1>7 DEF KeysFollow
  <2>3. wire \in Seq(Bytes) /\ IsRing(queue, QueueWords) /\ Now \in States
    BY DEF KeysType
  <2>4. \E t \in States : Run(More(m, x), Words(wire \o Scan[k]), t) /\ Agrees(t, held', locked)
    <3>1. CASE k = "pause"
      <4>1. k \in {"pause"} /\ x = [i \in 1 .. 2 |-> <<k, Meant(k)>>] /\ held' = held
        BY <1>2, <3>1 DEF x
      <4>2. QED BY <1>1, <2>2, <2>3, <4>1, PauseRun
    <3>2. CASE k # "pause"
      <4>1. x = [i \in 1 .. 1 |-> <<k, Meant(k)>>] /\ held' = held \cup {k}
        BY <1>2, <3>2 DEF x
      <4>2. QED BY <1>1, <2>2, <2>3, <3>2, <4>1, PressRun
    <3>3. QED BY <3>1, <3>2
  <2>5. Contents(queue) \in Seq(QueueWords)
    BY <2>3, ContentsSeq, Zenon
  <2>6. Run(More(Now, x), Contents(queue), More(m, x)) /\ More(m, x) \in States
    BY <1>3, <2>2, <2>5, RunMore, MoreIs, Zenon
  <2>7. Run(Now', Contents(queue'), More(m, x))
    BY <1>2, <1>4, <2>6
  <2>8. QED BY <1>2, <2>1, <2>4, <2>6, <2>7 DEF KeysFollow
<1>8. QED BY <1>2, <1>6, <1>7 DEF KeysFollow

\* The user releases a key.
LEMMA ReleaseKeeps ==
    ASSUME KeysType, KeysFollow, NEW k \in Keys, Release(k)
    PROVE  KeysType' /\ KeysFollow'
<1>1. k \in Names /\ held \subseteq Names \ {"pause"}
  BY KeysAssumption, CodesAre DEF KeysType
<1>2. /\ wire' = wire \o Released(k) /\ k \in held /\ held' = held \ {k}
      /\ locked' = IF k \in LockKeys THEN Toggle(locked, k) ELSE locked
      /\ UNCHANGED <<port, expects, failed, hasty, queue, state, overrun, drained, owed, astray>>
  BY DEF Release, User, driver, losses
<1>3. wire \in Seq(Bytes) /\ wire' \in Seq(Bytes)
  BY <1>1, <1>2, PressType DEF KeysType
<1>4. Now' = Now
  BY <1>2 DEF Now, state
<1>5. locked' \subseteq LockKeys
  BY <1>2 DEF KeysType, Toggle
<1>6. KeysType'
  BY <1>2, <1>3, <1>4, <1>5 DEF KeysType
<1>7. ASSUME ~overrun, ~drained PROVE KeysFollow'
  <2>1. ~astray
    BY <1>7 DEF KeysFollow
  <2>2. PICK m \in States, u \in States :
            Run(Now, Contents(queue), m) /\ Run(m, Words(wire), u) /\ Agrees(u, held, locked)
    BY <1>7 DEF KeysFollow
  <2>3. \E t \in States : Run(m, Words(wire'), t) /\ Agrees(t, held', locked')
    BY <1>1, <1>2, <1>3, <2>2, ReleaseRun
  <2>4. QED BY <1>2, <1>4, <2>1, <2>2, <2>3 DEF KeysFollow
<1>8. QED BY <1>2, <1>6, <1>7 DEF KeysFollow

\* An acknowledgement is on its way, which the interrupt handler will drop.
LEMMA AcknowledgeKeeps ==
    ASSUME KeysType, KeysFollow, Acknowledge
    PROVE  KeysType' /\ KeysFollow'
<1>1. /\ wire' = Append(wire, ACK) /\ expects' = (working = LED)
      /\ UNCHANGED <<port, failed, hasty, queue, state, overrun, drained, held, locked, owed, astray>>
  BY DEF Acknowledge, driver, user, losses
<1>2. wire \in Seq(Bytes) /\ ACK \in Bytes
  BY DEF KeysType, Bytes, ACK
<1>3. wire' \in Seq(Bytes) /\ Words(wire') = Append(Words(wire), Word(ACK))
  BY <1>1, <1>2, WordsAppend
<1>4. Now' = Now
  BY <1>1 DEF Now, state
<1>5. KeysType'
  BY <1>1, <1>3, <1>4 DEF KeysType
<1>6. ASSUME ~overrun, ~drained PROVE KeysFollow'
  <2>1. ~astray
    BY <1>6 DEF KeysFollow
  <2>2. PICK m \in States, u \in States :
            Run(Now, Contents(queue), m) /\ Run(m, Words(wire), u) /\ Agrees(u, held, locked)
    BY <1>6 DEF KeysFollow
  <2>3. Takes(u, Word(ACK), u)
    <3>1. Word(ACK) = 0 /\ 0 < FLAG
      BY DEF Word, FLAG
    <3>2. QED BY <3>1 DEF Takes
  <2>4. Words(wire) \in Seq(QueueWords) /\ Word(ACK) \in QueueWords
    BY <1>2, WordsAre, WordIs
  <2>5. Run(m, Append(Words(wire), Word(ACK)), u)
    BY <2>2, <2>3, <2>4, RunNext, Zenon
  <2>6. Run(m, Words(wire'), u)
    BY <1>3, <2>5
  <2>7. QED BY <1>1, <1>4, <2>1, <2>2, <2>6 DEF KeysFollow
<1>7. QED BY <1>1, <1>5, <1>6 DEF KeysFollow

-----------------------------------------------------------------------------
(* Steps: the interrupt handler and the main loop. *)

\* The next byte of the controller's is the next of the run, and an ACK is nothing.
LEMMA NextByte ==
    ASSUME NEW w \in Seq(Bytes), w # <<>>, NEW m \in States, NEW u, Run(m, Words(w), u)
    PROVE  /\ Head(w) \in Bytes /\ Tail(w) \in Seq(Bytes)
           /\ Head(w) = ACK => Run(m, Words(Tail(w)), u)
           /\ \E n \in States : Takes(m, Word(Head(w)), n) /\ Run(n, Words(Tail(w)), u)
<1>1. /\ Head(w) \in Bytes /\ Tail(w) \in Seq(Bytes) /\ Words(w) # <<>>
      /\ Head(Words(w)) = Word(Head(w)) /\ Tail(Words(w)) = Words(Tail(w))
  BY WordsTail
<1>2. Words(w) \in Seq(QueueWords)
  BY WordsAre
<1>3. PICK n \in States : Takes(m, Head(Words(w)), n) /\ Run(n, Tail(Words(w)), u)
  BY <1>1, <1>2, RunFirst, Zenon
<1>4. Takes(m, Word(Head(w)), n) /\ Run(n, Words(Tail(w)), u)
  BY <1>1, <1>3
<1>5. ASSUME Head(w) = ACK PROVE n = m
  <2>1. Word(Head(w)) = 0 /\ 0 < FLAG
    BY <1>5 DEF Word, FLAG
  <2>2. QED BY <1>4, <2>1 DEF Takes
<1>6. Head(w) = ACK => Run(m, Words(Tail(w)), u)
  BY <1>4, <1>5
<1>7. QED BY <1>1, <1>4, <1>6

\* A byte that is read goes to the back of the queue.
LEMMA InterruptKeeps ==
    ASSUME KeysType, KeysFollow, Interrupt
    PROVE  KeysType' /\ KeysFollow'
<1> DEFINE b == Head(wire)
<1>1. /\ wire # <<>> /\ port' = b /\ wire' = Tail(wire)
      /\ b = ACK => UNCHANGED <<queue, overrun>>
      /\ b # ACK => queue' = Put(queue, b + FLAG) /\ overrun' = (overrun \/ ~HasRoom(queue))
      /\ UNCHANGED <<drained, expects, failed, hasty, state, held, locked, owed, astray>>
  BY DEF Interrupt, driver, user
<1>2. wire \in Seq(Bytes) /\ IsRing(queue, QueueWords) /\ Now \in States /\ overrun \in BOOLEAN
  BY DEF KeysType
<1>3. b \in Bytes /\ wire' \in Seq(Bytes)
  BY <1>1, <1>2, HeadTailProperties
<1>4. Now' = Now
  BY <1>1 DEF Now, state
<1> HIDE DEF b
<1>5. b + FLAG \in QueueWords
  BY <1>3, WordIs
<1>6. HasRoom(queue) => /\ IsRing(Put(queue, b + FLAG), QueueWords)
                        /\ Contents(Put(queue, b + FLAG)) = Append(Contents(queue), b + FLAG)
  BY <1>2, <1>5, PutAppends, Zenon
<1>7. ~HasRoom(queue) => Put(queue, b + FLAG) = queue
  BY DEF Put
<1>8. IsRing(queue', QueueWords) /\ overrun' \in BOOLEAN
  <2>1. CASE b = ACK
    BY <1>1, <1>2, <2>1
  <2>2. CASE b # ACK /\ HasRoom(queue)
    BY <1>1, <1>2, <1>6, <2>2
  <2>3. CASE b # ACK /\ ~HasRoom(queue)
    BY <1>1, <1>2, <1>7, <2>3
  <2>4. QED BY <2>1, <2>2, <2>3
<1>9. KeysType'
  BY <1>1, <1>3, <1>4, <1>8 DEF KeysType
<1>10. ASSUME ~overrun', ~drained' PROVE ~overrun /\ ~drained /\ (b # ACK => HasRoom(queue))
  BY <1>1, <1>2, <1>10
<1>11. ASSUME ~overrun', ~drained' PROVE KeysFollow'
  <2>1. ~astray
    BY <1>10, <1>11 DEF KeysFollow
  <2>2. PICK m \in States, u \in States :
            Run(Now, Contents(queue), m) /\ Run(m, Words(wire), u) /\ Agrees(u, held, locked)
    BY <1>10, <1>11 DEF KeysFollow
  <2>3. CASE b = ACK
    <3>1. Run(m, Words(wire'), u)
      BY <1>1, <1>2, <2>2, <2>3, NextByte DEF b
    <3>2. QED BY <1>1, <1>4, <2>1, <2>2, <2>3, <3>1 DEF KeysFollow
  <2>4. CASE b # ACK
    <3>1. PICK n \in States : Takes(m, Word(b), n) /\ Run(n, Words(wire'), u)
      BY <1>1, <1>2, <2>2, NextByte DEF b
    <3>2. Takes(m, b + FLAG, n)
      BY <2>4, <3>1 DEF Word
    <3>3. Contents(queue) \in Seq(QueueWords)
      BY <1>2, ContentsSeq, Zenon
    <3>4. Run(Now, Append(Contents(queue), b + FLAG), n)
      BY <1>2, <1>5, <2>2, <3>2, <3>3, RunNext, Zenon
    <3>5. Run(Now', Contents(queue'), n)
      BY <1>1, <1>4, <1>6, <1>10, <1>11, <2>4, <3>4
    <3>6. QED BY <1>1, <2>1, <2>2, <3>1, <3>5 DEF KeysFollow
  <2>5. QED BY <2>3, <2>4
<1>12. QED BY <1>9, <1>11 DEF KeysFollow

\* A word of the queue is below the flag, or a byte with it.
LEMMA WordSplits ==
    ASSUME NEW w \in QueueWords
    PROVE  ~(w < FLAG) => w % FLAG \in Bytes
<1>1. CASE w \in Bytes
  BY <1>1, WordIs
<1>2. CASE w \notin Bytes
  <2>1. PICK b \in Bytes : w = b + FLAG
    BY <1>2 DEF QueueWords
  <2>2. QED BY <2>1, WordIs
<1>3. QED BY <1>1, <1>2

\* The main loop is given byte b.
Fed(b) ==
    /\ prefix' = NextPrefix(b)
    /\ IF ~Assembles(b) THEN UNCHANGED <<pushed, locks, shift, update, owed, astray>>
       ELSE IF prefix.skip > 0 THEN OnKey(KeyCode["pause"], TRUE)
       ELSE OnKey(CodeOf(b, prefix.extern), b < 128)

\* The main loop makes of a byte what the run makes of it, and the terminal is told
\* what it is due.
LEMMA FedIs ==
    ASSUME KeysType, NEW b \in Bytes, Fed(b)
    PROVE  /\ Now' \in States /\ astray' \in BOOLEAN
           /\ \A n : Feeds(Now, b, n) => n = Now' /\ astray' = astray
<1> DEFINE c == CodeIn(Now, b)
           d == Down(Now, b)
           k == KeyAt(c)
           p == PrefixAfter(Now, b)
<1>1. /\ Now.prefix = prefix /\ Now.pushed = pushed /\ Now.locks = locks /\ Now.shift = shift /\ Now.owed = owed
      /\ Now' = [prefix |-> prefix', pushed |-> pushed', locks |-> locks', shift |-> shift', owed |-> owed']
  BY DEF Now
<1>2. /\ Now \in States /\ astray \in BOOLEAN /\ prefix \in Prefixes /\ pushed \in SUBSET (0 .. TableSize - 1)
      /\ locks \in SUBSET LockKeys /\ shift \in BOOLEAN /\ owed \in Seq(Tellings)
  <2>1. Now \in States /\ astray \in BOOLEAN
    BY DEF KeysType
  <2>2. QED BY <1>1, <2>1 DEF States
<1>3. prefix' = p /\ p \in Prefixes
  BY <1>1, <1>2, PrefixStays, SMTT(40) DEF Fed, NextPrefix, PrefixAfter
<1>4. Completes(Now, b) <=> Assembles(b)
  BY <1>1 DEF Completes, Assembles
<1>5. CASE ~Assembles(b)
  <2>1. UNCHANGED <<pushed, locks, shift, owed, astray>>
    BY <1>5 DEF Fed
  <2>2. Now' = [prefix |-> p, pushed |-> pushed, locks |-> locks, shift |-> shift, owed |-> owed]
    BY <1>1, <1>3, <2>1
  <2>3. Now' \in States
    BY <1>2, <1>3, <2>2 DEF States
  <2>4. ASSUME NEW n, Feeds(Now, b, n) PROVE n = Now'
    BY <1>1, <1>4, <1>5, <2>2, <2>4 DEF Feeds
  <2>5. QED BY <1>2, <2>1, <2>3, <2>4
<1>6. CASE Assembles(b)
  <2>1. OnKey(c, d) /\ d \in BOOLEAN
    <3>1. CASE prefix.skip > 0
      <4>1. c = KeyCode["pause"] /\ d = TRUE
        BY <1>1, <3>1 DEF CodeIn, Down
      <4>2. OnKey(KeyCode["pause"], TRUE)
        BY <1>6, <3>1 DEF Fed
      <4>3. QED BY <4>1, <4>2
    <3>2. CASE ~(prefix.skip > 0)
      <4>1. c = CodeOf(b, prefix.extern) /\ d = (b < 128)
        BY <1>1, <3>2 DEF CodeIn, Down
      <4>2. OnKey(CodeOf(b, prefix.extern), b < 128)
        BY <1>6, <3>2 DEF Fed
      <4>3. QED BY <4>1, <4>2
    <3>3. QED BY <3>1, <3>2
  <2>2. d => c \in 0 .. TableSize - 1
    BY <1>2, CodeFits
  <2>3. Shows(Now, k) = <<k, Combined(k)>>
    BY <1>1 DEF Shows, Combined
  <2> HIDE DEF c, d, p
  <2>4. /\ pushed' = IF d THEN pushed \cup {c} ELSE pushed \ {c}
        /\ shift' = ShiftAfter(k, d)
        /\ locks' = IF k \in LockKeys /\ ~d THEN Toggle(locks, k) ELSE locks
        /\ k # "none" /\ d => Tell(<<k, Combined(k)>>)
        /\ ~(k # "none" /\ d) => UNCHANGED <<owed, astray>>
    BY <2>1 DEF OnKey
  <2> HIDE DEF k
  <2>5. pushed' \in SUBSET (0 .. TableSize - 1) /\ locks' \in SUBSET LockKeys
    BY <1>2, <2>2, <2>4 DEF Toggle
  <2>6. shift' \in BOOLEAN
    BY <1>2, <2>1, <2>4 DEF ShiftAfter
  <2>7. owed' \in Seq(Tellings) /\ astray' \in BOOLEAN
    <3>1. owed # <<>> => Tail(owed) \in Seq(Tellings)
      BY <1>2, HeadTailProperties
    <3>2. QED BY <1>2, <2>4, <3>1 DEF Tell
  <2>8. Now' \in States
    BY <1>1, <1>3, <2>5, <2>6, <2>7 DEF States
  <2>9. ASSUME NEW n, Feeds(Now, b, n) PROVE n = Now' /\ astray' = astray
    <3>1. /\ n = Keyed(Now, p, c, k, d)
          /\ k # "none" /\ d => owed # <<>> /\ Head(owed) = Shows(Now, k)
      BY <1>1, <1>4, <1>6, <2>9 DEF Feeds, c, d, k, p
    <3>2. owed' = (IF k # "none" /\ d THEN Tail(owed) ELSE owed) /\ astray' = astray
      BY <2>3, <2>4, <3>1 DEF Tell
    <3>3. shift' = IF k \in ShiftKeys THEN d \/ \E o \in ShiftKeys \ {k} : KeyCode[o] \in pushed ELSE shift
      BY <2>4 DEF ShiftAfter
    <3>4. QED BY <1>1, <1>3, <2>4, <3>1, <3>2, <3>3 DEF Keyed
  <2>10. QED BY <2>7, <2>8, <2>9
<1>7. QED BY <1>5, <1>6

\* The main loop takes the oldest word.
LEMMA HandleKeeps ==
    ASSUME KeysType, KeysFollow, Handle
    PROVE  KeysType' /\ KeysFollow'
<1> DEFINE w == Oldest(queue)
           b == w % FLAG
<1>1. /\ ~queue.empty /\ queue' = Remove(queue)
      /\ w < FLAG => UNCHANGED <<state, owed, astray>>
      /\ ~(w < FLAG) => Fed(b)
      /\ UNCHANGED <<wire, port, expects, failed, hasty, overrun, drained, held, locked>>
  BY DEF Handle, Taken, Fed, device, user, driver, losses
<1>2. IsRing(queue, QueueWords) /\ Now \in States /\ astray \in BOOLEAN
  BY DEF KeysType
<1>3. /\ IsRing(queue', QueueWords) /\ Contents(queue) # <<>> /\ w = Head(Contents(queue))
      /\ Contents(queue') = Tail(Contents(queue)) /\ Contents(queue) \in Seq(QueueWords)
  BY <1>1, <1>2, RemoveTakesOldest, ContentsSeq
<1>4. w \in QueueWords
  BY <1>3, HeadTailProperties
<1> HIDE DEF w
<1>5. ~(w < FLAG) => b \in Bytes
  BY <1>4, WordSplits
<1> HIDE DEF b
<1>6. w < FLAG => Now' = Now
  BY <1>1 DEF Now, state
<1>7. Now' \in States /\ astray' \in BOOLEAN
  <2>1. CASE w < FLAG
    BY <1>1, <1>2, <1>6, <2>1
  <2>2. CASE ~(w < FLAG)
    BY <1>1, <1>5, <2>2, FedIs
  <2>3. QED BY <2>1, <2>2
<1>8. KeysType'
  BY <1>1, <1>3, <1>7 DEF KeysType
<1>9. ASSUME ~overrun, ~drained PROVE KeysFollow'
  <2>1. ~astray
    BY <1>9 DEF KeysFollow
  <2>2. PICK m \in States, u \in States :
            Run(Now, Contents(queue), m) /\ Run(m, Words(wire), u) /\ Agrees(u, held, locked)
    BY <1>9 DEF KeysFollow
  <2>3. PICK n \in States : Takes(Now, Head(Contents(queue)), n) /\ Run(n, Tail(Contents(queue)), m)
    BY <1>2, <1>3, <2>2, RunFirst, Zenon
  <2>4. Takes(Now, w, n) /\ Run(n, Contents(queue'), m)
    BY <1>3, <2>3
  <2>5. n = Now' /\ astray' = astray
    <3>1. CASE w < FLAG
      BY <1>1, <1>6, <2>4, <3>1 DEF Takes
    <3>2. CASE ~(w < FLAG)
      <4>1. Feeds(Now, b, n) /\ Fed(b) /\ b \in Bytes
        BY <1>1, <1>5, <2>4, <3>2 DEF Takes, b
      <4>2. QED BY <4>1, FedIs
    <3>3. QED BY <3>1, <3>2
  <2>6. Run(Now', Contents(queue'), m) /\ ~astray'
    BY <2>1, <2>4, <2>5
  <2>7. QED BY <1>1, <2>2, <2>6 DEF KeysFollow
<1>10. QED BY <1>1, <1>8, <1>9 DEF KeysFollow

\* An update waits for its acknowledgement and passes on what it reads instead.
LEMMA PollKeeps ==
    ASSUME KeysType, KeysFollow, Poll
    PROVE  KeysType' /\ KeysFollow'
<1> DEFINE b == IF wire = <<>> THEN port ELSE Head(wire)
<1>1. /\ port' = b /\ wire' = IF wire = <<>> THEN wire ELSE Tail(wire)
      /\ b = ACK => UNCHANGED <<queue, failed, drained>>
      /\ b # ACK => /\ queue' = Put(queue, b) /\ drained' = (drained \/ wire # <<>>)
                    /\ failed' = (failed \/ tries' = AckTries)
      /\ UNCHANGED <<overrun, expects, hasty, state, held, locked, owed, astray>>
  BY DEF Poll, user
<1>2. /\ wire \in Seq(Bytes) /\ IsRing(queue, QueueWords) /\ Now \in States
      /\ port \in Bytes /\ drained \in BOOLEAN /\ failed \in BOOLEAN
  BY DEF KeysType
<1>3. b \in Bytes /\ wire' \in Seq(Bytes)
  BY <1>1, <1>2, HeadTailProperties
<1>4. Now' = Now
  BY <1>1 DEF Now, state
<1> HIDE DEF b
<1>5. b \in QueueWords /\ b < FLAG
  BY <1>3, WordIs
<1>6. HasRoom(queue) => IsRing(Put(queue, b), QueueWords) /\ Contents(Put(queue, b)) = Append(Contents(queue), b)
  BY <1>2, <1>5, PutAppends, Zenon
<1>7. ~HasRoom(queue) => Put(queue, b) = queue
  BY DEF Put
<1>8. IsRing(queue', QueueWords) /\ drained' \in BOOLEAN /\ failed' \in BOOLEAN
  <2>1. CASE b = ACK
    BY <1>1, <1>2, <2>1
  <2>2. CASE b # ACK
    <3>1. drained' \in BOOLEAN /\ failed' \in BOOLEAN
      BY <1>1, <1>2, <2>2
    <3>2. IsRing(queue', QueueWords)
      BY <1>1, <1>2, <1>6, <1>7, <2>2
    <3>3. QED BY <3>1, <3>2
  <2>3. QED BY <2>1, <2>2
<1>9. KeysType'
  BY <1>1, <1>3, <1>4, <1>8 DEF KeysType
<1>10. ASSUME ~overrun', ~drained' PROVE ~overrun /\ ~drained /\ (b # ACK => wire = <<>>)
  BY <1>1, <1>2, <1>10
<1>11. ASSUME ~overrun', ~drained' PROVE KeysFollow'
  <2>1. ~astray
    BY <1>10, <1>11 DEF KeysFollow
  <2>2. PICK m \in States, u \in States :
            Run(Now, Contents(queue), m) /\ Run(m, Words(wire), u) /\ Agrees(u, held, locked)
    BY <1>10, <1>11 DEF KeysFollow
  <2>3. CASE b = ACK
    <3>1. Run(m, Words(wire'), u)
      <4>1. CASE wire = <<>>
        BY <1>1, <2>2, <4>1
      <4>2. CASE wire # <<>>
        BY <1>1, <1>2, <2>2, <2>3, <4>2, NextByte DEF b
      <4>3. QED BY <4>1, <4>2
    <3>2. QED BY <1>1, <1>4, <2>1, <2>2, <2>3, <3>1 DEF KeysFollow
  <2>4. CASE b # ACK
    <3>1. wire' = wire
      BY <1>1, <1>10, <1>11, <2>4
    <3>2. Run(Now, Contents(queue'), m)
      <4>1. CASE HasRoom(queue)
        <5>1. Takes(m, b, m)
          BY <1>5 DEF Takes
        <5>2. Contents(queue) \in Seq(QueueWords)
          BY <1>2, ContentsSeq, Zenon
        <5>3. Run(Now, Append(Contents(queue), b), m)
          BY <1>2, <1>5, <2>2, <5>1, <5>2, RunNext, Zenon
        <5>4. QED BY <1>1, <1>6, <2>4, <4>1, <5>3
      <4>2. CASE ~HasRoom(queue)
        BY <1>1, <1>7, <2>2, <2>4, <4>2
      <4>3. QED BY <4>1, <4>2
    <3>3. QED BY <1>1, <1>4, <2>1, <2>2, <3>1, <3>2 DEF KeysFollow
  <2>5. QED BY <2>3, <2>4
<1>12. QED BY <1>9, <1>11 DEF KeysFollow

-----------------------------------------------------------------------------
(* Steps: the lights. *)

\* The byte that is sent switches on the lights of the locks, and is not the command.
LEMMA LightsAre ==
    ASSUME locks \subseteq LockKeys
    PROVE  LightsOf(LightCode) = locks /\ LightCode # LED /\ LightCode # None /\ LED # None
<1> DEFINE a == IF "caps" \in locks THEN 4 ELSE 0
           b == IF "num" \in locks THEN 2 ELSE 0
           c == IF "scroll" \in locks THEN 1 ELSE 0
           n == a + b + c
<1>1. LightCode = n
  BY DEF LightCode
<1>2. /\ a \in {0, 4} /\ b \in {0, 2} /\ c \in {0, 1}
      /\ (a = 4) <=> ("caps" \in locks)
      /\ (b = 2) <=> ("num" \in locks)
      /\ (c = 1) <=> ("scroll" \in locks)
  OBVIOUS
<1> HIDE DEF a, b, c
<1>3. /\ n \in 0 .. 7
      /\ ((n \div 4) % 2 = 1) <=> (a = 4)
      /\ ((n \div 2) % 2 = 1) <=> (b = 2)
      /\ ((n \div 1) % 2 = 1) <=> (c = 1)
  BY <1>2
<1> HIDE DEF n
<1>4. ASSUME NEW l \in LockKeys PROVE l \in LightsOf(n) <=> l \in locks
  <2> DEFINE v == CASE l = "caps" -> 4 [] l = "num" -> 2 [] l = "scroll" -> 1
  <2>0. l \in LightsOf(n) <=> (n \div v) % 2 = 1
    BY DEF LightsOf
  <2>1. CASE l = "caps"
    <3>1. v = 4
      BY <2>1
    <3> HIDE DEF v
    <3>2. QED BY <1>2, <1>3, <2>0, <2>1, <3>1
  <2>2. CASE l = "num"
    <3>1. v = 2
      BY <2>2
    <3> HIDE DEF v
    <3>2. QED BY <1>2, <1>3, <2>0, <2>2, <3>1
  <2>3. CASE l = "scroll"
    <3>1. v = 1
      BY <2>3
    <3> HIDE DEF v
    <3>2. QED BY <1>2, <1>3, <2>0, <2>3, <3>1
  <2>4. QED BY <2>1, <2>2, <2>3 DEF LockKeys
<1>5. LightsOf(n) \subseteq LockKeys
  BY DEF LightsOf
<1>6. LightsOf(n) = locks
  BY <1>4, <1>5
<1>7. n # LED /\ n # None /\ LED # None
  BY <1>3 DEF LED, None
<1>8. QED BY <1>1, <1>6, <1>7

\* The lights are as before.
LEMMA LightsStay ==
    ASSUME LightsFollow, UNCHANGED <<input, working, expects, lights, update, locks, failed, hasty>>
    PROVE  LightsFollow'
BY DEF LightsFollow

\* A lock that is set starts an update.
LEMMA HandleLights ==
    ASSUME LightsFollow, Handle
    PROVE  LightsFollow'
<1>1. UNCHANGED <<input, working, expects, lights, failed, hasty>> /\ update = "no"
  BY DEF Handle, device, driver
<1>2. UNCHANGED <<locks, update>> \/ update' = "begin"
  BY DEF Handle, state, OnKey
<1>3. CASE UNCHANGED <<locks, update>>
  BY <1>1, <1>3, LightsStay
<1>4. CASE update' = "begin"
  BY <1>1, <1>4 DEF LightsFollow
<1>5. QED BY <1>2, <1>3, <1>4

\* The controller hands the byte on.
LEMMA ForwardLights ==
    ASSUME KeysType, LightsFollow, Forward
    PROVE  LightsFollow'
<1>1. /\ input # None /\ working = None /\ working' = input /\ input' = None
      /\ UNCHANGED <<expects, lights, update, locks, failed, hasty>> /\ expects \in BOOLEAN
  BY DEF Forward, driver, state, KeysType
<1>2. QED BY <1>1 DEF LightsFollow

\* The keyboard carries the byte out.
LEMMA AcknowledgeLights ==
    ASSUME KeysType, LightsFollow, Acknowledge
    PROVE  LightsFollow'
<1>1. /\ working # None /\ working' = None /\ expects' = (working = LED)
      /\ lights' = IF working # LED /\ expects THEN LightsOf(working) ELSE lights
      /\ UNCHANGED <<input, update, locks, failed, hasty>> /\ expects \in BOOLEAN
  BY DEF Acknowledge, driver, state, KeysType
<1>2. QED BY <1>1 DEF LightsFollow

\* The command goes out, and the lights go out.
LEMMA SendLightsFollow ==
    ASSUME KeysType, LightsFollow, Begin \/ SendLights
    PROVE  LightsFollow'
<1>1. /\ hasty' = (hasty \/ input # None) /\ expects \in BOOLEAN /\ hasty \in BOOLEAN
      /\ UNCHANGED <<working, expects, lights, locks, failed>>
  BY DEF Begin, SendLights, Send, state, KeysType
<1>2. /\ LightsOf(LightCode) = locks /\ LightCode # LED /\ LightCode # None /\ LED # None
  BY LightsAre DEF KeysType, Now, States
<1>3. CASE input # None
  BY <1>1, <1>3 DEF LightsFollow
<1>4. CASE input = None /\ Begin
  <2>1. update = "begin" /\ update' = "ack" /\ input' = LED
    BY <1>4 DEF Begin, Send
  <2>2. QED BY <1>1, <1>2, <1>4, <2>1 DEF LightsFollow
<1>5. CASE input = None /\ SendLights
  <2>1. update = "send" /\ update' = "ack lights" /\ input' = LightCode
    BY <1>5 DEF SendLights, Send
  <2>2. QED BY <1>1, <1>2, <1>5, <2>1 DEF LightsFollow
<1>6. QED BY <1>3, <1>4, <1>5

\* The update goes on, gives up or waits.
LEMMA PollLights ==
    ASSUME KeysType, LightsFollow, Poll
    PROVE  LightsFollow'
<1>1. /\ update \in {"ack", "ack lights"} /\ expects \in BOOLEAN /\ failed \in BOOLEAN
      /\ UNCHANGED <<input, working, expects, lights, locks, hasty>>
  BY DEF Poll, state, KeysType
<1>2. \/ failed' = failed /\ update' = IF update = "ack" THEN "send" ELSE "no"
      \/ failed' = failed /\ update' = update
      \/ failed' = TRUE
  BY <1>1 DEF Poll
<1>3. CASE failed' = failed /\ update' = IF update = "ack" THEN "send" ELSE "no"
  BY <1>1, <1>3 DEF LightsFollow
<1>4. CASE failed' = failed /\ update' = update
  BY <1>1, <1>4, LightsStay
<1>5. CASE failed' = TRUE
  BY <1>5 DEF LightsFollow
<1>6. QED BY <1>2, <1>3, <1>4, <1>5

-----------------------------------------------------------------------------
(* The keyboard's theorems. *)

\* Every step keeps the invariant.
LEMMA KeyboardStep == KeyboardInv /\ [Next]_vars => KeyboardInv'
<1> SUFFICES ASSUME KeyboardInv, [Next]_vars PROVE KeyboardInv'
  OBVIOUS
<1>0. KeysType /\ KeysFollow /\ LightsFollow
  BY DEF KeyboardInv
<1>1. ASSUME NEW k \in Keys, Press(k) PROVE KeyboardInv'
  <2>1. LightsFollow'
    BY <1>0, <1>1, LightsStay DEF Press, driver, state
  <2>2. QED BY <1>0, <1>1, <2>1, PressKeeps DEF KeyboardInv
<1>2. ASSUME NEW k \in Keys, Release(k) PROVE KeyboardInv'
  <2>1. LightsFollow'
    BY <1>0, <1>2, LightsStay DEF Release, driver, state
  <2>2. QED BY <1>0, <1>2, <2>1, ReleaseKeeps DEF KeyboardInv
<1>3. CASE Forward
  <2>1. KeysType' /\ KeysFollow'
    <3>1. UNCHANGED <<wire, port, expects, failed, hasty, queue, state, owed, astray, held, locked, overrun, drained>>
      BY <1>3 DEF Forward, driver, losses, user
    <3>2. QED BY <1>0, <3>1, KeysStay DEF KeysType
  <2>2. QED BY <1>0, <1>3, <2>1, ForwardLights DEF KeyboardInv
<1>4. CASE Acknowledge
  BY <1>0, <1>4, AcknowledgeKeeps, AcknowledgeLights DEF KeyboardInv
<1>5. CASE Interrupt
  <2>1. LightsFollow'
    BY <1>0, <1>5, LightsStay DEF Interrupt, driver, state
  <2>2. QED BY <1>0, <1>5, <2>1, InterruptKeeps DEF KeyboardInv
<1>6. CASE Handle
  BY <1>0, <1>6, HandleKeeps, HandleLights DEF KeyboardInv
<1>7. CASE Begin \/ SendLights
  <2>1. KeysType' /\ KeysFollow'
    <3>1. UNCHANGED <<wire, port, expects, failed, queue, state, owed, astray, held, locked, overrun, drained>>
      BY <1>7 DEF Begin, SendLights, Send, user, losses
    <3>2. hasty' \in BOOLEAN
      BY <1>0, <1>7 DEF Begin, SendLights, Send, KeysType
    <3>3. QED BY <1>0, <3>1, <3>2, KeysStay DEF KeysType
  <2>2. QED BY <1>0, <1>7, <2>1, SendLightsFollow DEF KeyboardInv
<1>8. CASE Poll
  BY <1>0, <1>8, PollKeeps, PollLights DEF KeyboardInv
<1>9. CASE UNCHANGED vars
  <2>1. UNCHANGED <<wire, port, input, working, expects, lights, queue, update, failed, hasty, state, overrun, drained,
                    held, locked, owed, astray>>
    BY <1>9 DEF vars, device, driver, losses, user
  <2>2. KeysType' /\ KeysFollow'
    BY <1>0, <2>1, KeysStay DEF KeysType
  <2>3. LightsFollow'
    BY <1>0, <2>1, LightsStay DEF state
  <2>4. QED BY <2>2, <2>3 DEF KeyboardInv
<1>10. QED BY <1>1, <1>2, <1>3, <1>4, <1>5, <1>6, <1>7, <1>8, <1>9 DEF Next

\* The keys that are on their way are a run from what the kernel knows to what the user
\* knows, and the lights follow the command (keyboard.c, keys.c:51-109).
THEOREM KeyboardInvariant == Spec => []KeyboardInv
<1>1. QED BY KeyboardStart, KeyboardStep, PTL DEF Spec

\* When nothing is on its way the kernel knows what the user knows.
LEMMA QuietAgrees ==
    ASSUME KeyboardInv, ~overrun, ~drained, Quiet
    PROVE  Agrees(Now, held, locked)
<1>1. wire = <<>> /\ wire \in Seq(Bytes) /\ queue.empty /\ IsRing(queue, QueueWords) /\ Now \in States
  BY DEF Quiet, KeyboardInv, KeysType
<1>2. PICK m \in States, u \in States :
          Run(Now, Contents(queue), m) /\ Run(m, Words(wire), u) /\ Agrees(u, held, locked)
  BY DEF KeyboardInv, KeysFollow
<1>3. Contents(queue) = <<>>
  <2>1. Contents(queue) \in Seq(QueueWords) /\ Len(Contents(queue)) = 0
    BY <1>1, ContentsSeq, LengthRange
  <2>2. QED BY <2>1, EmptySeq
<1>4. Words(wire) = <<>>
  <2>1. Words(wire) \in Seq(QueueWords) /\ Len(Words(wire)) = 0
    BY <1>1, WordsAre
  <2>2. QED BY <2>1, EmptySeq
<1>5. m = Now /\ u = m
  BY <1>1, <1>2, <1>3, <1>4, RunNone
<1>6. QED BY <1>2, <1>5

\* The terminal is told every key the user pressed, in order and with the modifiers of that
\* moment, for every keyboard, every size of the queue and every length of typing
\* (keys.c:51), as long as no scan code came to a full queue (keyboard.c:157) and none was
\* read by a try for an ACK, whose words ckMain drops (keyboard.c:126, ckMain.c:137).
THEOREM TypesText == Spec => []TypedText
<1>1. KeyboardInv => TypedText
  <2>1. SUFFICES ASSUME KeyboardInv, ~overrun, ~drained PROVE ~astray /\ (Quiet => owed = <<>>)
    BY DEF TypedText
  <2>2. ~astray
    BY <2>1 DEF KeyboardInv, KeysFollow
  <2>3. ASSUME Quiet PROVE owed = <<>>
    <3>1. Agrees(Now, held, locked)
      BY <2>1, <2>3, QuietAgrees
    <3>2. QED BY <3>1 DEF Agrees, Now
  <2>4. QED BY <2>2, <2>3
<1>2. QED BY <1>1, KeyboardInvariant, PTL

\* Once everything is handled the kernel's view of the keys and locks is the user's, unless
\* a scan code came to a full queue or was read by a try for an ACK; the lights show the
\* locks unless an update or a wait for the controller gave up; and no code is outside the
\* table (keys.c:53, 61, keyboard.c:75, 80).
THEOREM StateIsFollowed == Spec => []StateFollows
<1>1. KeyboardInv => StateFollows
  <2>1. SUFFICES ASSUME KeyboardInv PROVE StateFollows
    OBVIOUS
  <2>2. ASSUME ~overrun, ~drained, Quiet
        PROVE  /\ shift = (held \cap ShiftKeys # {}) /\ locks = locked
               /\ pushed \ {KeyCode["pause"]} = {KeyCode[k] : k \in held}
    <3>1. Agrees(Now, held, locked)
      BY <2>1, <2>2, QuietAgrees
    <3>2. QED BY <3>1 DEF Agrees, Now
  <2>3. ASSUME Quiet, ~failed, ~hasty PROVE lights = locks
    BY <2>1, <2>3 DEF Quiet, KeyboardInv, LightsFollow
  <2>4. pushed \subseteq 0 .. TableSize - 1
    BY <2>1 DEF KeyboardInv, KeysType, States, Now
  <2>5. QED BY <2>2, <2>3, <2>4 DEF StateFollows
<1>2. QED BY <1>1, KeyboardInvariant, PTL
=============================================================================
