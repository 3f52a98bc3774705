-------------------------- MODULE PlannedChunkProofs --------------------------
(***************************************************************************)
(* Proofs about SideStreamPlanner and PlannedChunk, for every chunk and    *)
(* every number of entries the FieldLZ encoder may leave.                  *)
(***************************************************************************)
EXTENDS PlannedChunk, SequenceTheorems, FiniteSetTheorems, TLAPS

Stored == [id : Nat, payload : Payload]

TransformShape == [id : {"zstd", "field_lz", "transpose_split4", "delta_int",
                         "literal_dict_u32"},
                   ins : Seq(Nat), out : Nat, private : Nat]

\* A zstd record names a width that streams have.
Transform == {r \in TransformShape : r.id = "zstd" => r.private \in {1, 2, 4}}

\* The ids two lists fill, and that records read only what was filled.
StoredBy(st) == {st[i].id : i \in DOMAIN st}
FilledBy(ts) == {ts[j].out : j \in DOMAIN ts}

InOrder(st, ts) ==
  \A j \in DOMAIN ts : \A k \in DOMAIN ts[j].ins :
    \/ ts[j].ins[k] \in StoredBy(st)
    \/ \E i \in 1..(j - 1) : ts[i].out = ts[j].ins[k]

\* What is true of two lists and a counter whatever routes made them: each id
\* below the counter was filled, once, and records read only what was filled.
Dense(st, ts, n) ==
  /\ n \in Nat
  /\ st \in Seq(Stored)
  /\ ts \in Seq(Transform)
  /\ Len(st) + Len(ts) = n
  /\ StoredBy(st) \cup FilledBy(ts) = 0..(n - 1)
  /\ InOrder(st, ts)

\* The strengthening that every step preserves: a literal route finds no input
\* appended yet.
PlanInv ==
  /\ PlanTypeOK
  /\ Dense(stored, transforms, nextId)
  /\ phase \in {"literals", "lanes"} => inputs = <<>>

\* What else is true while the decoder reads: the whole plan is there, and the
\* header announces its records.
ReadInv ==
  /\ status = "reading" => phase = "planned" /\ header.transforms = Len(transforms)
  /\ log \in Seq(Map!LogEntry)

-----------------------------------------------------------------------------
\* What a plan says of the streams
\*
\* A plan that can be decoded explains every id it hands out: some m gives each
\* of them the payload and the element width its slot will have.

Known == [payload : {p \in Payload : p.means # Garbage}, width : {0, 1, 2, 4}]

Explanations(n) == [0..(n - 1) -> Known]

\* The payloads record r takes, whether it passes every check of the decoder and
\* of its codec, and what it restores.
Taken(m, r) == [k \in DOMAIN r.ins |-> m[r.ins[k]].payload]

Passes(m, r) ==
  /\ Len(r.ins) = Map!Arity(r.id)
  /\ Map!AcceptsHeader(r.id, r.private)
  /\ \A k \in DOMAIN r.ins : Map!AcceptsWidth(r.id, k, r.private, m[r.ins[k]].width)
  /\ CodecAccepts(r, Taken(m, r))

Result(m, r) == [payload |-> Restored(r, Taken(m, r)),
                 width   |-> Map!OutputWidth(r.id, r.private)]

\* Every id is filled once.
FilledOnce(st, ts) ==
  /\ \A i, j \in DOMAIN st : st[i].id = st[j].id => i = j
  /\ \A i, j \in DOMAIN ts : ts[i].out = ts[j].out => i = j
  /\ \A i \in DOMAIN st, j \in DOMAIN ts : st[i].id # ts[j].out

Sound(m, st, ts, n) ==
  /\ Dense(st, ts, n)
  /\ FilledOnce(st, ts)
  /\ m \in Explanations(n)
  /\ \A i \in DOMAIN st : m[st[i].id] = [payload |-> st[i].payload, width |-> 0]
  /\ \A j \in DOMAIN ts : Passes(m, ts[j]) /\ m[ts[j].out] = Result(m, ts[j])

\* Nothing is left over: what no record reads is in P.
AllReadBut(P, ts, n) ==
  \A s \in 0..(n - 1) :
    s \in P \/ \E j \in DOMAIN ts : \E k \in DOMAIN ts[j].ins : ts[j].ins[k] = s

NoFieldLz(ts) == \A j \in DOMAIN ts : ts[j].id # "field_lz"

\* One FieldLZ record, and the last stream is its output, or what delta_int makes
\* of it.
EndsInFinal(ts, last) ==
  \E f, k \in DOMAIN ts :
    /\ \A j \in DOMAIN ts : ts[j].id = "field_lz" <=> j = f
    /\ ts[k].out = last
    /\ \/ k = f
       \/ ts[k].id = "delta_int" /\ ts[k].ins[1] = ts[f].out

\* Stream s is restored as `means`, so many bytes, of width w if it has one.
Holds(m, s, means, bytes, w) ==
  m[s].payload = Rebuilt(means, bytes) /\ m[s].width \in {0, w}

Elements(s) == {s[k] : k \in DOMAIN s}

\* What a plan says when it has come as far as `phase`.
PlanMeans(m) ==
  /\ Sound(m, stored, transforms, nextId)
  /\ phase = "literals" => stored = <<>> /\ transforms = <<>> /\ nextId = 0 /\ lanes = <<>>
  /\ phase = "lanes" =>
       /\ \A k \in DOMAIN lanes : Holds(m, lanes[k], Lane(k), entries[1], 1)
       /\ AllReadBut(Elements(lanes), transforms, nextId)
       /\ nextId <= 2 * Len(lanes) /\ Len(transforms) <= Len(lanes)
  /\ phase = "streams" =>
       /\ \A k \in DOMAIN inputs :
            Holds(m, inputs[k], Side(k), entries[k] * FieldLzWidths[k], FieldLzWidths[k])
       /\ AllReadBut(Elements(inputs), transforms, nextId)
       /\ nextId <= 7 + 2 * Len(inputs) /\ Len(transforms) <= 4 + Len(inputs)
  /\ phase # "planned" => NoFieldLz(transforms)
  /\ phase = "planned" =>
       /\ final \in 0..(nextId - 1)
       /\ m[final].payload = Rebuilt(ChunkOf, U32Width * chunkLen)
       /\ AllReadBut({final}, transforms, nextId)
       /\ EndsInFinal(transforms, final)
       /\ nextId <= 19 /\ Len(transforms) <= 11

\* The slots filled so far.
ReadIds == {stored[i].id : i \in 1..storedRead} \cup {transforms[j].out : j \in 1..Len(log)}

\* The decoder finds in each slot what the plan says of it.
ReadMeans(m) ==
  /\ phase = "planned"
  /\ header = [slots |-> nextId, stored |-> Len(stored),
               transforms |-> Len(transforms), final |-> final]
  /\ storedRead \in 0..Len(stored)
  /\ Len(log) \in 0..Len(transforms)
  /\ Len(log) > 0 => storedRead = Len(stored)
  /\ slots \in [0..(nextId - 1) -> Map!Slot]
  /\ DOMAIN contents = ReadIds
  /\ \A s \in 0..(nextId - 1) :
       /\ slots[s].defined <=> s \in ReadIds
       /\ s \notin ReadIds => slots[s].width = 0
       /\ s \in ReadIds => /\ contents[s] = m[s].payload
                           /\ slots[s].width = m[s].width
                           /\ slots[s].full <=> IsFull(contents[s])
  /\ \A j \in 1..Len(log) :
       /\ log[j] = [id |-> transforms[j].id, input |-> transforms[j].ins[1],
                    output |-> transforms[j].out]
       /\ \A k \in DOMAIN transforms[j].ins : slots[transforms[j].ins[k]].used

\* The plan explains its ids, and until the chunk is accepted the decoder is part
\* of the way through them; nothing is refused.
ExplainedBy(m) ==
  /\ PlanMeans(m)
  /\ status \in {"header", "reading", "accepted"}
  /\ status = "header" => DOMAIN contents = {} /\ storedRead = 0 /\ log = <<>>
  /\ status # "header" => ReadMeans(m)
  /\ status = "accepted" => storedRead = Len(stored) /\ Len(log) = Len(transforms)

PlanExplained == \E m : ExplainedBy(m)

-----------------------------------------------------------------------------
\* Lemmas about the lists

\* What Append does to a sequence, element by element.
LEMMA Appended ==
  ASSUME NEW S, NEW s \in Seq(S), NEW x \in S
  PROVE  /\ Append(s, x) \in Seq(S)
         /\ Len(Append(s, x)) = Len(s) + 1
         /\ DOMAIN s = 1..Len(s) /\ DOMAIN Append(s, x) = 1..(Len(s) + 1)
         /\ \A k \in 1..Len(s) : Append(s, x)[k] = s[k]
         /\ Append(s, x)[Len(s) + 1] = x
  OBVIOUS

\* A list of one.
LEMMA ListOfOne ==
  ASSUME NEW S, NEW x \in S
  PROVE  <<x>> \in Seq(S) /\ Len(<<x>>) = 1
  OBVIOUS

\* Concatenating one or two elements is appending them.
LEMMA ConcatIsAppend ==
  ASSUME NEW S, NEW s \in Seq(S), NEW x \in S, NEW y \in S
  PROVE  /\ s \o <<>> = s
         /\ s \o <<x>> = Append(s, x)
         /\ s \o <<x, y>> = Append(Append(s, x), y)
         /\ <<x>> \o <<y>> = <<x, y>> /\ <<>> \o <<y>> = <<y>>
<1>1. /\ s \o <<>> = s
      /\ s \o <<x>> = Append(s, x)
      /\ s \o <<x, y>> = Append(Append(s, x), y)
  OBVIOUS
<1>2. <<>> \o <<y>> = <<y>>
  OBVIOUS
<1>3. <<x>> \o <<y>> = <<x, y>>
  <2>1. <<x>> \in Seq(S) /\ <<y>> \in Seq(S) /\ <<x, y>> \in Seq(S)
    OBVIOUS
  <2>2. /\ <<x>> \o <<y>> \in Seq(S) /\ Len(<<x>> \o <<y>>) = 2
        /\ (<<x>> \o <<y>>)[1] = x /\ (<<x>> \o <<y>>)[2] = y
    <3>1. /\ <<x>> \o <<y>> \in Seq(S)
          /\ Len(<<x>> \o <<y>>) = Len(<<x>>) + Len(<<y>>)
          /\ \A i \in 1..(Len(<<x>>) + Len(<<y>>)) :
               (<<x>> \o <<y>>)[i] = IF i <= Len(<<x>>) THEN <<x>>[i]
                                     ELSE <<y>>[i - Len(<<x>>)]
      BY <2>1, ConcatProperties
    <3>2. Len(<<x>>) = 1 /\ Len(<<y>>) = 1 /\ <<x>>[1] = x /\ <<y>>[1] = y
      OBVIOUS
    <3>3. \A i \in 1..2 : (<<x>> \o <<y>>)[i] = IF i <= 1 THEN <<x>>[i] ELSE <<y>>[i - 1]
      BY <3>1, <3>2
    <3> QED
      BY <3>1, <3>2, <3>3
  <2>3. Len(<<x, y>>) = 2 /\ <<x, y>>[1] = x /\ <<x, y>>[2] = y
    OBVIOUS
  <2>4. \A i \in 1..2 : (<<x>> \o <<y>>)[i] = <<x, y>>[i]
    BY <2>2, <2>3
  <2> QED
    BY <2>1, <2>2, <2>3, <2>4, SeqEqual
<1> QED
  BY <1>1, <1>2, <1>3

\* Storing a stream under the next id.
LEMMA StoreNext ==
  ASSUME NEW st, NEW ts, NEW n, Dense(st, ts, n),
         NEW x \in Stored, x.id = n
  PROVE  Dense(Append(st, x), ts, n + 1)
<1> DEFINE u == Append(st, x)
           m == Len(st)
<1>1. /\ n \in Nat /\ st \in Seq(Stored) /\ ts \in Seq(Transform)
      /\ m \in Nat /\ Len(ts) \in Nat /\ m + Len(ts) = n
  BY DEF Dense
<1>2. /\ u \in Seq(Stored) /\ Len(u) = m + 1
      /\ DOMAIN st = 1..m /\ DOMAIN u = 1..(m + 1)
      /\ \A k \in 1..m : u[k] = st[k]
      /\ u[m + 1] = x
  BY <1>1, Appended
<1> HIDE DEF u
<1>3. StoredBy(u) = StoredBy(st) \cup {n}
  <2>1. \A i \in DOMAIN u : i \in DOMAIN st \/ i = m + 1
    BY <1>1, <1>2
  <2>2. \A i \in DOMAIN st : i \in DOMAIN u /\ u[i] = st[i]
    BY <1>1, <1>2
  <2>3. m + 1 \in DOMAIN u /\ u[m + 1].id = n
    BY <1>1, <1>2
  <2>4. \A e \in StoredBy(u) : e \in StoredBy(st) \cup {n}
    BY <2>1, <2>2, <2>3 DEF StoredBy, FilledBy
  <2>5. \A e \in StoredBy(st) \cup {n} : e \in StoredBy(u)
    BY <2>2, <2>3 DEF StoredBy, FilledBy
  <2> QED
    BY <2>4, <2>5
<1>4. 0..(n + 1 - 1) = 0..(n - 1) \cup {n}
  BY <1>1
<1>5. StoredBy(u) \cup FilledBy(ts) = 0..(n + 1 - 1)
  BY <1>3, <1>4 DEF Dense
<1>6. InOrder(u, ts)
  BY <1>3 DEF Dense, InOrder
<1>7. Dense(u, ts, n + 1)
  BY <1>1, <1>2, <1>5, <1>6 DEF Dense
<1> QED
  BY <1>7 DEF u

\* Adding a record that reads filled streams and fills the next id.
LEMMA RecordNext ==
  ASSUME NEW st, NEW ts, NEW n, Dense(st, ts, n),
         NEW r \in Transform, r.out = n,
         \A k \in DOMAIN r.ins : r.ins[k] \in 0..(n - 1)
  PROVE  Dense(st, Append(ts, r), n + 1)
<1> DEFINE u == Append(ts, r)
           m == Len(ts)
<1>1. /\ n \in Nat /\ st \in Seq(Stored) /\ ts \in Seq(Transform)
      /\ m \in Nat /\ Len(st) \in Nat /\ Len(st) + m = n
  BY DEF Dense
<1>2. /\ u \in Seq(Transform) /\ Len(u) = m + 1
      /\ DOMAIN ts = 1..m /\ DOMAIN u = 1..(m + 1)
      /\ \A k \in 1..m : u[k] = ts[k]
      /\ u[m + 1] = r
  BY <1>1, Appended
<1> HIDE DEF u
<1>3. FilledBy(u) = FilledBy(ts) \cup {n}
  <2>1. \A j \in DOMAIN u : j \in DOMAIN ts \/ j = m + 1
    BY <1>1, <1>2
  <2>2. \A j \in DOMAIN ts : j \in DOMAIN u /\ u[j] = ts[j]
    BY <1>1, <1>2
  <2>3. m + 1 \in DOMAIN u /\ u[m + 1].out = n
    BY <1>1, <1>2
  <2>4. \A e \in FilledBy(u) : e \in FilledBy(ts) \cup {n}
    BY <2>1, <2>2, <2>3 DEF StoredBy, FilledBy
  <2>5. \A e \in FilledBy(ts) \cup {n} : e \in FilledBy(u)
    BY <2>2, <2>3 DEF StoredBy, FilledBy
  <2> QED
    BY <2>4, <2>5
<1>4. 0..(n + 1 - 1) = 0..(n - 1) \cup {n}
  BY <1>1
<1>5. StoredBy(st) \cup FilledBy(u) = 0..(n + 1 - 1)
  BY <1>3, <1>4 DEF Dense
<1>6. ASSUME NEW j \in DOMAIN u, NEW k \in DOMAIN u[j].ins
      PROVE  \/ u[j].ins[k] \in StoredBy(st)
             \/ \E i \in 1..(j - 1) : u[i].out = u[j].ins[k]
  <2>1. CASE j = m + 1
    <3>1. u[j].ins[k] \in 0..(n - 1)
      BY <2>1, <1>2
    <3>2. u[j].ins[k] \in StoredBy(st) \/ \E i \in 1..m : ts[i].out = u[j].ins[k]
      BY <3>1, <1>2 DEF Dense, FilledBy
    <3>3. j - 1 = m
      BY <2>1, <1>1
    <3> QED
      BY <3>2, <3>3, <1>2
  <2>2. CASE j \in 1..m
    <3>1. u[j] = ts[j]
      BY <2>2, <1>2
    <3>2. ts[j].ins[k] \in StoredBy(st) \/ \E i \in 1..(j - 1) : ts[i].out = ts[j].ins[k]
      BY <2>2, <3>1, <1>2 DEF Dense, InOrder
    <3>3. \A i \in 1..(j - 1) : i \in 1..m
      BY <2>2, <1>1
    <3> QED
      BY <3>1, <3>2, <3>3, <1>2
  <2> QED
    BY <2>1, <2>2, <1>1, <1>2
<1>7. InOrder(st, u)
  BY <1>6 DEF InOrder
<1>8. Dense(st, u, n + 1)
  BY <1>1, <1>2, <1>5, <1>7 DEF Dense
<1> QED
  BY <1>8 DEF u

-----------------------------------------------------------------------------
\* Lemmas about the routes

\* A stored stream with these parts is well typed.
LEMMA StoredType ==
  ASSUME NEW id \in Nat, NEW means \in Meanings, NEW bytes \in Nat, NEW zstd \in BOOLEAN
  PROVE  /\ StoredStream(id, means, bytes, zstd) \in Stored
         /\ StoredStream(id, means, bytes, zstd).id = id
  BY DEF StoredStream, Stored, Payload

\* Records keep the shape the type invariant states.
LEMMA RecordsHaveShape ==
  ASSUME NEW ts \in Seq(Transform)
  PROVE  ts \in Seq(TransformShape)
<1>1. \A r \in Transform : r \in TransformShape
  BY DEF Transform
<1> HIDE DEF Transform, TransformShape
<1> QED
  BY <1>1

\* Two lists after a route, and the id the route leaves its stream in.
RouteKeeps(st, ts, n, route) ==
  /\ Dense(st \o route.stored, ts \o route.transforms, route.next)
  /\ route.output \in 0..(route.next - 1)
  /\ n <= route.next

\* What RawRoute is, case by case.
LEMMA RawRouteParts ==
  ASSUME NEW means, NEW bytes, NEW width, NEW n
  PROVE  LET route == RawRoute(means, bytes, width, n)
             x == StoredStream(n, means, bytes, bytes >= MinZstd)
         IN /\ route.stored = <<x>>
            /\ bytes >= MinZstd =>
                 /\ route.transforms = <<Record("zstd", <<n>>, n + 1, width)>>
                 /\ route.output = n + 1 /\ route.next = (n + 1) + 1
            /\ ~ (bytes >= MinZstd) =>
                 /\ route.transforms = <<>>
                 /\ route.output = n /\ route.next = n + 1
  BY DEF RawRoute

\* append_raw_stream_route takes one id for a raw stream and two for a
\* compressed one.
LEMMA RawRouteKeeps ==
  ASSUME NEW st, NEW ts, NEW n, Dense(st, ts, n),
         NEW means \in Meanings, NEW bytes \in Nat, NEW width \in {1, 2, 4}
  PROVE  RouteKeeps(st, ts, n, RawRoute(means, bytes, width, n))
<1> DEFINE route == RawRoute(means, bytes, width, n)
           x == StoredStream(n, means, bytes, bytes >= MinZstd)
           r == Record("zstd", <<n>>, n + 1, width)
<1>1. n \in Nat /\ st \in Seq(Stored) /\ ts \in Seq(Transform)
  BY DEF Dense
<1>2. x \in Stored /\ x.id = n
  <2>1. (bytes >= MinZstd) \in BOOLEAN
    OBVIOUS
  <2> QED
    BY <1>1, <2>1, StoredType
<1>3. /\ route.stored = <<x>>
      /\ bytes >= MinZstd => /\ route.transforms = <<r>>
                             /\ route.output = n + 1 /\ route.next = (n + 1) + 1
      /\ ~ (bytes >= MinZstd) => /\ route.transforms = <<>>
                                 /\ route.output = n /\ route.next = n + 1
  BY RawRouteParts
<1>4. r \in Transform /\ r.ins = <<n>> /\ r.out = n + 1
  <2>1. <<n>> \in Seq(Nat) /\ n + 1 \in Nat
    BY <1>1
  <2> QED
    BY <2>1 DEF Record, Transform, TransformShape
<1> HIDE DEF route, x, r
<1>5. Dense(Append(st, x), ts, n + 1)
  BY <1>2, StoreNext
<1>6. st \o <<x>> = Append(st, x)
  BY <1>1, <1>2, ConcatIsAppend
<1>7. CASE bytes >= MinZstd
  <2>1. \A k \in DOMAIN r.ins : r.ins[k] \in 0..((n + 1) - 1)
    BY <1>1, <1>4
  <2>2. Dense(Append(st, x), Append(ts, r), (n + 1) + 1)
    BY <1>4, <1>5, <2>1, RecordNext
  <2>3. ts \o <<r>> = Append(ts, r)
    BY <1>1, <1>4, ConcatIsAppend
  <2>4. Dense(st \o route.stored, ts \o route.transforms, route.next)
    BY <1>3, <1>6, <1>7, <2>2, <2>3
  <2>5. route.output \in 0..(route.next - 1) /\ n <= route.next
    BY <1>1, <1>3, <1>7
  <2> QED
    BY <2>4, <2>5 DEF RouteKeeps, route
<1>8. CASE ~ (bytes >= MinZstd)
  <2>1. ts \o <<>> = ts
    BY <1>1
  <2>2. Dense(st \o route.stored, ts \o route.transforms, route.next)
    BY <1>3, <1>5, <1>6, <1>8, <2>1
  <2>3. route.output \in 0..(route.next - 1) /\ n <= route.next
    BY <1>1, <1>3, <1>8
  <2> QED
    BY <2>2, <2>3 DEF RouteKeeps, route
<1> QED
  BY <1>7, <1>8

\* The dictionary takes two ids to store, one for compressed codes, and one for
\* the literals it restores.
LEMMA DictionaryRouteKeeps ==
  ASSUME NEW st, NEW ts, NEW n, Dense(st, ts, n),
         NEW distinct \in Nat, NEW width \in {1, 2}, entries[1] \in Nat
  PROVE  RouteKeeps(st, ts, n, DictionaryRoute(distinct, width, n))
<1> DEFINE bytes == width * entries[1]
           route == DictionaryRoute(distinct, width, n)
           codes == IF bytes >= MinZstd THEN n + 2 ELSE n + 1
           x == StoredStream(n, Table, U32Width * distinct, FALSE)
           y == StoredStream(n + 1, Codes, bytes, bytes >= MinZstd)
           r == Record("zstd", <<n + 1>>, n + 2, width)
           d == Record("literal_dict_u32", <<n, codes>>, codes + 1, width)
<1>1. n \in Nat /\ st \in Seq(Stored) /\ ts \in Seq(Transform) /\ bytes \in Nat
  BY DEF Dense
<1>2. x \in Stored /\ x.id = n
  <2>1. Table \in Meanings /\ U32Width * distinct \in Nat
    BY DEF Meanings, U32Width
  <2> QED
    BY <1>1, <2>1, StoredType
<1>3. y \in Stored /\ y.id = n + 1
  <2>1. (bytes >= MinZstd) \in BOOLEAN /\ Codes \in Meanings /\ n + 1 \in Nat
    BY <1>1 DEF Meanings
  <2> QED
    BY <1>1, <2>1, StoredType
<1>4. r \in Transform /\ r.ins = <<n + 1>> /\ r.out = n + 2
  <2>1. <<n + 1>> \in Seq(Nat) /\ n + 2 \in Nat
    BY <1>1
  <2> QED
    BY <2>1 DEF Record, Transform, TransformShape
<1>5. d \in Transform /\ d.ins = <<n, codes>> /\ d.out = codes + 1
  <2>1. <<n, codes>> \in Seq(Nat) /\ codes + 1 \in Nat
    BY <1>1
  <2> QED
    BY <2>1 DEF Record, Transform, TransformShape
<1>6. /\ route.stored = <<x, y>>
      /\ route.transforms = (IF bytes >= MinZstd THEN <<Record("zstd", <<n + 1>>, codes, width)>>
                             ELSE <<>>) \o <<d>>
      /\ route.output = codes + 1 /\ route.next = codes + 2
  BY DEF DictionaryRoute
<1>7. bytes >= MinZstd => codes = n + 2 /\ route.transforms = <<r>> \o <<d>>
  BY <1>6
<1>8. ~ (bytes >= MinZstd) => codes = n + 1 /\ route.transforms = <<>> \o <<d>>
  BY <1>6
<1> HIDE DEF route, x, y, r, d, codes
<1>9. /\ Dense(Append(Append(st, x), y), ts, (n + 1) + 1)
      /\ st \o <<x, y>> = Append(Append(st, x), y)
      /\ (n + 1) + 1 = n + 2
  <2>1. Dense(Append(st, x), ts, n + 1)
    BY <1>2, StoreNext
  <2>2. Dense(Append(Append(st, x), y), ts, (n + 1) + 1)
    BY <1>3, <2>1, StoreNext
  <2> QED
    BY <1>1, <1>2, <1>3, <2>2, ConcatIsAppend, SMTT(30)
<1>10. CASE bytes >= MinZstd
  <2>1. codes = n + 2 /\ <<r>> \o <<d>> = <<r, d>>
    BY <1>1, <1>7, <1>10, <1>4, <1>5, ConcatIsAppend
  <2>2. \A k \in DOMAIN r.ins : r.ins[k] \in 0..((n + 2) - 1)
    BY <1>1, <1>4
  <2>3. Dense(Append(Append(st, x), y), Append(ts, r), (n + 2) + 1)
    BY <1>4, <1>9, <2>2, RecordNext
  <2>4. (n + 2) + 1 = n + 3 /\ ((n + 2) + 1) + 1 = n + 4
    BY <1>1
  <2>5. \A k \in DOMAIN d.ins : d.ins[k] \in 0..((n + 3) - 1)
    BY <1>1, <1>5, <2>1, SMTT(30)
  <2>6. d.out = n + 3
    BY <1>1, <1>5, <2>1
  <2>7. Dense(Append(Append(st, x), y), Append(Append(ts, r), d), (n + 3) + 1)
    BY <1>5, <2>3, <2>4, <2>5, <2>6, RecordNext
  <2>8. ts \o <<r, d>> = Append(Append(ts, r), d)
    BY <1>1, <1>4, <1>5, ConcatIsAppend
  <2>9. route.next = (n + 3) + 1
    BY <1>1, <1>6, <2>1
  <2>10. Dense(st \o route.stored, ts \o route.transforms, route.next)
    BY <1>6, <1>7, <1>9, <1>10, <2>1, <2>7, <2>8, <2>9
  <2>11. route.output \in 0..(route.next - 1) /\ n <= route.next
    BY <1>1, <1>6, <2>1
  <2> QED
    BY <2>10, <2>11 DEF RouteKeeps, route
<1>11. CASE ~ (bytes >= MinZstd)
  <2>1. codes = n + 1 /\ <<>> \o <<d>> = <<d>>
    BY <1>1, <1>8, <1>11, <1>5, ConcatIsAppend
  <2>2. \A k \in DOMAIN d.ins : d.ins[k] \in 0..((n + 2) - 1)
    BY <1>1, <1>5, <2>1
  <2>3. d.out = n + 2
    BY <1>1, <1>5, <2>1
  <2>4. Dense(Append(Append(st, x), y), Append(ts, d), (n + 2) + 1)
    BY <1>5, <1>9, <2>2, <2>3, RecordNext
  <2>5. ts \o <<d>> = Append(ts, d)
    BY <1>1, <1>5, ConcatIsAppend
  <2>6. route.next = (n + 2) + 1
    BY <1>1, <1>6, <2>1
  <2>7. Dense(st \o route.stored, ts \o route.transforms, route.next)
    BY <1>6, <1>8, <1>9, <1>11, <2>1, <2>4, <2>5, <2>6
  <2>8. route.output \in 0..(route.next - 1) /\ n <= route.next
    BY <1>1, <1>6, <2>1
  <2> QED
    BY <2>7, <2>8 DEF RouteKeeps, route
<1> QED
  BY <1>10, <1>11

-----------------------------------------------------------------------------
\* The steps of the planner

\* What is known of the chunk's sizes.
LEMMA SizeFacts ==
  ASSUME PlanInv
  PROVE  /\ chunkLen \in Nat /\ nextId \in Nat
         /\ \A k \in 1..5 : entries[k] \in Nat
         /\ DOMAIN FieldLzWidths = 1..5 /\ Len(FieldLzWidths) = 5
         /\ \A k \in 1..5 : FieldLzWidths[k] \in {2, 4}
         /\ Dense(stored, transforms, nextId)
<1>1. /\ DOMAIN FieldLzWidths = 1..5 /\ Len(FieldLzWidths) = 5
      /\ \A k \in 1..5 : FieldLzWidths[k] \in {2, 4}
  BY PlannerAssumption
<1>2. /\ chunkLen \in 1..MaxChunk /\ MaxChunk \in Nat /\ nextId \in Nat
      /\ entries \in SideStreamSizes(chunkLen)
  BY PlannerAssumption DEF PlanInv, PlanTypeOK
<1>3. entries \in [1..5 -> 0..chunkLen]
  BY <1>1, <1>2 DEF SideStreamSizes
<1> QED
  BY <1>1, <1>2, <1>3 DEF PlanInv

\* Ids stay ids when the counter grows.
LEMMA IdsStay ==
  ASSUME NEW n \in Nat, NEW m \in Nat, n <= m, NEW s \in Seq(0..(n - 1))
  PROVE  s \in Seq(0..(m - 1))
<1>1. \A e \in 0..(n - 1) : e \in 0..(m - 1)
  OBVIOUS
<1> QED
  BY <1>1

\* Before anything is planned the lists are empty and so are the ids.
LEMMA PlanInvInit ==
  ASSUME PlanInit
  PROVE  PlanInv
<1>1. <<>> \in Seq(Stored) /\ <<>> \in Seq(Transform)
  OBVIOUS
<1>2. StoredBy(<<>>) = {} /\ FilledBy(<<>>) = {} /\ 0..(0 - 1) = {}
  BY DEF StoredBy, FilledBy
<1>3. Dense(<<>>, <<>>, 0)
  BY <1>1, <1>2 DEF Dense, InOrder
<1>4. PlanTypeOK
  <2>1. /\ SplitLanes \in Nat /\ Len(FieldLzWidths) \in Nat
        /\ <<>> \in Seq(0..(0 - 1)) /\ Len(<<>>) = 0
    BY PlannerAssumption
  <2> QED
    BY <1>1, <2>1 DEF PlanInit, PlanTypeOK, Stored, TransformShape
<1> QED
  BY <1>3, <1>4 DEF PlanInit, PlanInv

\* A route that keeps the lists, appended with the rest of the state well
\* typed, keeps the invariant.
LEMMA AppendRouteKeeps ==
  ASSUME PlanInv, NEW route, AppendRoute(route),
         RouteKeeps(stored, transforms, nextId, route),
         UNCHANGED <<planned, final>>,
         phase' \in {"literals", "lanes", "streams", "planned"},
         lanes' \in Seq(0..(route.next - 1)), Len(lanes') <= SplitLanes,
         inputs' \in Seq(0..(route.next - 1)), Len(inputs') <= Len(FieldLzWidths),
         phase' \in {"literals", "lanes"} => inputs' = <<>>
  PROVE  PlanInv'
<1>1. /\ stored' = stored \o route.stored /\ transforms' = transforms \o route.transforms
      /\ nextId' = route.next
      /\ chunkLen' = chunkLen /\ entries' = entries /\ delta' = delta /\ final' = final
  BY DEF AppendRoute, planned
<1>2. Dense(stored', transforms', nextId')
  BY <1>1 DEF RouteKeeps
<1>3. nextId' \in Nat /\ stored' \in Seq(Stored) /\ transforms' \in Seq(TransformShape)
  BY <1>2, RecordsHaveShape DEF Dense
<1>4. /\ chunkLen \in 1..MaxChunk /\ entries \in SideStreamSizes(chunkLen)
      /\ delta \in BOOLEAN /\ final \in Nat
  BY DEF PlanInv, PlanTypeOK
<1>5. entries' \in SideStreamSizes(chunkLen)'
  BY <1>1, <1>4 DEF SideStreamSizes
<1>6. PlanTypeOK'
  BY <1>1, <1>3, <1>4, <1>5 DEF PlanTypeOK, Stored, TransformShape
<1> QED
  BY <1>2, <1>6 DEF PlanInv

\* A record of filled streams under the next id, appended with the rest of the
\* state well typed, keeps the invariant.
LEMMA AppendRecordKeeps ==
  ASSUME PlanInv, NEW ts \in Seq(Transform), NEW n \in Nat,
         Dense(stored, ts, n), nextId <= n,
         transforms' = ts, nextId' = n, stored' = stored,
         UNCHANGED planned, final' \in Nat, UNCHANGED lanes,
         phase' \in {"streams", "planned"},
         inputs' \in Seq(0..(n - 1)), Len(inputs') <= Len(FieldLzWidths)
  PROVE  PlanInv'
<1>1. chunkLen' = chunkLen /\ entries' = entries /\ delta' = delta /\ lanes' = lanes
  BY DEF planned
<1>2. Dense(stored', transforms', nextId')
  OBVIOUS
<1>3. nextId' \in Nat /\ stored' \in Seq(Stored) /\ transforms' \in Seq(TransformShape)
  BY <1>2, RecordsHaveShape DEF Dense
<1>4. /\ chunkLen \in 1..MaxChunk /\ entries \in SideStreamSizes(chunkLen)
      /\ delta \in BOOLEAN /\ nextId \in Nat
      /\ lanes \in Seq(0..(nextId - 1)) /\ Len(lanes) <= SplitLanes
  BY DEF PlanInv, PlanTypeOK
<1>5. entries' \in SideStreamSizes(chunkLen)'
  BY <1>1, <1>4 DEF SideStreamSizes
<1>6. lanes \in Seq(0..(n - 1))
  BY <1>4, IdsStay
<1>7. PlanTypeOK'
  BY <1>1, <1>3, <1>4, <1>5, <1>6 DEF PlanTypeOK, Stored, TransformShape
<1> QED
  BY <1>2, <1>7 DEF PlanInv

\* What is known of the two lists of ids.
LEMMA IdLists ==
  ASSUME PlanInv
  PROVE  /\ nextId \in Nat
         /\ lanes \in Seq(0..(nextId - 1)) /\ Len(lanes) \in Nat /\ Len(lanes) <= SplitLanes
         /\ inputs \in Seq(0..(nextId - 1)) /\ Len(inputs) \in Nat
         /\ Len(inputs) <= Len(FieldLzWidths)
         /\ SplitLanes = 4 /\ Len(FieldLzWidths) = 5
  BY PlannerAssumption DEF PlanInv, PlanTypeOK

\* The dictionary route is the first input of FieldLZ.
LEMMA PlanDictionaryKeeps ==
  ASSUME PlanInv, PlanDictionary
  PROVE  PlanInv'
<1>1. PICK distinct \in 1..(entries[1] - 1), width \in {1, 2} :
        /\ AppendRoute(DictionaryRoute(distinct, width, nextId))
        /\ inputs' = <<DictionaryRoute(distinct, width, nextId).output>>
  BY DEF PlanDictionary
<1> DEFINE route == DictionaryRoute(distinct, width, nextId)
<1>2. RouteKeeps(stored, transforms, nextId, route)
  <2>1. entries[1] \in Nat /\ Dense(stored, transforms, nextId)
    BY SizeFacts
  <2>2. distinct \in Nat
    BY <2>1
  <2> QED
    BY <2>1, <2>2, DictionaryRouteKeeps
<1>3. AppendRoute(route) /\ inputs' = <<route.output>>
  BY <1>1
<1> HIDE DEF route
<1>4. route.output \in 0..(route.next - 1) /\ nextId <= route.next /\ route.next \in Nat
  BY <1>2 DEF RouteKeeps, Dense
<1>5. lanes' = lanes /\ phase' = "streams" /\ UNCHANGED <<planned, final>>
  BY DEF PlanDictionary
<1>6. lanes' \in Seq(0..(route.next - 1)) /\ Len(lanes') <= SplitLanes
  BY <1>4, <1>5, IdLists, IdsStay
<1>7. inputs' \in Seq(0..(route.next - 1)) /\ Len(inputs') <= Len(FieldLzWidths)
  <2> DEFINE S == 0..(route.next - 1)
  <2>1. route.output \in S
    BY <1>4
  <2> HIDE DEF S
  <2>2. <<route.output>> \in Seq(S) /\ Len(<<route.output>>) = 1
    BY <2>1, ListOfOne
  <2>3. inputs' \in Seq(S) /\ Len(inputs') = 1
    BY <2>2, <1>3
  <2>4. Len(FieldLzWidths) = 5
    BY IdLists
  <2>5. Len(inputs') <= Len(FieldLzWidths)
    BY <2>3, <2>4
  <2> QED
    BY <2>3, <2>5 DEF S
<1> QED
  BY <1>2, <1>3, <1>5, <1>6, <1>7, AppendRouteKeeps

\* A byte lane of the literals, raw or compressed.
LEMMA AppendLaneKeeps ==
  ASSUME PlanInv, AppendLane
  PROVE  PlanInv'
<1> DEFINE route == RawRoute(Lane(Len(lanes) + 1), entries[1], 1, nextId)
<1>1. /\ phase = "lanes" /\ Len(lanes) < SplitLanes
      /\ AppendRoute(route) /\ lanes' = Append(lanes, route.output)
      /\ phase' = phase /\ inputs' = inputs /\ UNCHANGED <<planned, final>>
  BY DEF AppendLane
<1>2. RouteKeeps(stored, transforms, nextId, route)
  <2>1. entries[1] \in Nat /\ Dense(stored, transforms, nextId)
    BY SizeFacts
  <2>2. Len(lanes) + 1 \in 1..SplitLanes
    BY <1>1, IdLists
  <2>3. Lane(Len(lanes) + 1) \in Meanings
    BY <2>2 DEF Meanings
  <2> QED
    BY <2>1, <2>3, RawRouteKeeps
<1> HIDE DEF route
<1>3. route.output \in 0..(route.next - 1) /\ nextId <= route.next /\ route.next \in Nat
  BY <1>2 DEF RouteKeeps, Dense
<1>4. inputs = <<>> /\ inputs' = <<>>
  BY <1>1 DEF PlanInv
<1>5. lanes' \in Seq(0..(route.next - 1)) /\ Len(lanes') <= SplitLanes
  <2>1. lanes \in Seq(0..(route.next - 1))
    BY <1>3, IdLists, IdsStay
  <2> QED
    BY <1>1, <1>3, <2>1, IdLists
<1>6. inputs' \in Seq(0..(route.next - 1)) /\ Len(inputs') <= Len(FieldLzWidths)
  BY <1>4, IdLists
<1> QED
  BY <1>1, <1>2, <1>4, <1>5, <1>6, AppendRouteKeeps

\* PlanRawLiterals and AppendRaw: one more side stream, raw or compressed.
LEMMA AppendSideStreamKeeps ==
  ASSUME PlanInv, NEW k \in 1..5, AppendSideStream(k), Len(inputs) < Len(FieldLzWidths),
         phase' = "streams", UNCHANGED <<planned, lanes, final>>
  PROVE  PlanInv'
<1> DEFINE route == RawRoute(Side(k), entries[k] * FieldLzWidths[k], FieldLzWidths[k], nextId)
<1>1. AppendRoute(route) /\ inputs' = Append(inputs, route.output)
  BY DEF AppendSideStream
<1>2. RouteKeeps(stored, transforms, nextId, route)
  <2>1. /\ entries[k] \in Nat /\ FieldLzWidths[k] \in {2, 4} /\ DOMAIN FieldLzWidths = 1..5
        /\ Dense(stored, transforms, nextId)
    BY SizeFacts
  <2>2. Side(k) \in Meanings
    BY <2>1 DEF Meanings
  <2>3. entries[k] * FieldLzWidths[k] \in Nat
    BY <2>1
  <2> QED
    BY <2>1, <2>2, <2>3, RawRouteKeeps
<1> HIDE DEF route
<1>3. route.output \in 0..(route.next - 1) /\ nextId <= route.next /\ route.next \in Nat
  BY <1>2 DEF RouteKeeps, Dense
<1>4. lanes' \in Seq(0..(route.next - 1)) /\ Len(lanes') <= SplitLanes
  BY <1>3, IdLists, IdsStay
<1>5. inputs' \in Seq(0..(route.next - 1)) /\ Len(inputs') <= Len(FieldLzWidths)
  <2>1. inputs \in Seq(0..(route.next - 1))
    BY <1>3, IdLists, IdsStay
  <2> QED
    BY <1>1, <1>3, <2>1, IdLists
<1> QED
  BY <1>1, <1>2, <1>4, <1>5, AppendRouteKeeps

\* transpose_split4 reads the four lanes under the next id.
LEMMA CloseLanesKeeps ==
  ASSUME PlanInv, CloseLanes
  PROVE  PlanInv'
<1> DEFINE r == Record("transpose_split4", lanes, nextId, 0)
           ts == Append(transforms, r)
<1>1. /\ transforms' = ts /\ inputs' = <<nextId>> /\ nextId' = nextId + 1
      /\ phase' = "streams" /\ UNCHANGED <<planned, stored, lanes, final>>
  BY DEF CloseLanes
<1>2. nextId \in Nat /\ lanes \in Seq(0..(nextId - 1)) /\ lanes \in Seq(Nat)
  <2>1. \A e \in 0..(nextId - 1) : e \in Nat
    BY IdLists
  <2> QED
    BY <2>1, IdLists
<1>3. r \in Transform /\ r.ins = lanes /\ r.out = nextId
  BY <1>2 DEF Record, Transform, TransformShape
<1> HIDE DEF r
<1>4. \A k \in DOMAIN r.ins : r.ins[k] \in 0..(nextId - 1)
  BY <1>2, <1>3
<1>5. Dense(stored, ts, nextId + 1)
  BY <1>3, <1>4, RecordNext DEF PlanInv
<1>6. ts \in Seq(Transform) /\ nextId + 1 \in Nat /\ nextId <= nextId + 1
  BY <1>2, <1>5 DEF Dense
<1>7. inputs' \in Seq(0..((nextId + 1) - 1)) /\ Len(inputs') <= Len(FieldLzWidths)
  <2> DEFINE S == 0..((nextId + 1) - 1)
  <2>1. nextId \in S
    BY <1>2
  <2> HIDE DEF S
  <2>2. <<nextId>> \in Seq(S) /\ Len(<<nextId>>) = 1
    BY <2>1, ListOfOne
  <2>3. inputs' \in Seq(S) /\ Len(inputs') = 1
    BY <2>2, <1>1
  <2>4. Len(FieldLzWidths) = 5
    BY IdLists
  <2>5. Len(inputs') <= Len(FieldLzWidths)
    BY <2>3, <2>4
  <2> QED
    BY <2>3, <2>5 DEF S
<1>8. final' \in Nat
  BY <1>1 DEF PlanInv, PlanTypeOK
<1> HIDE DEF ts
<1> QED
  BY <1>1, <1>5, <1>6, <1>7, <1>8, AppendRecordKeeps

\* field_lz, and delta_int behind it when FieldLZ was run on deltas.
LEMMA CloseGraphKeeps ==
  ASSUME PlanInv, CloseGraph
  PROVE  PlanInv'
<1> DEFINE f == Record("field_lz", inputs, nextId, chunkLen)
           u == Record("delta_int", <<nextId>>, nextId + 1, 0)
           ts == Append(transforms, f)
           us == Append(ts, u)
<1>1. /\ transforms' = transforms \o (IF delta THEN <<f, u>> ELSE <<f>>)
      /\ final' = IF delta THEN nextId + 1 ELSE nextId
      /\ nextId' = final' + 1
      /\ phase' = "planned" /\ UNCHANGED <<planned, stored, lanes, inputs>>
  BY DEF CloseGraph
<1>2. /\ nextId \in Nat /\ inputs \in Seq(0..(nextId - 1)) /\ inputs \in Seq(Nat)
      /\ chunkLen \in Nat /\ delta \in BOOLEAN
  <2>1. \A e \in 0..(nextId - 1) : e \in Nat
    BY IdLists
  <2> QED
    BY <2>1, IdLists, SizeFacts DEF PlanInv, PlanTypeOK
<1>3. f \in Transform /\ f.ins = inputs /\ f.out = nextId
  BY <1>2 DEF Record, Transform, TransformShape
<1>4. u \in Transform /\ u.ins = <<nextId>> /\ u.out = nextId + 1
  BY <1>2 DEF Record, Transform, TransformShape
<1> HIDE DEF f, u
<1>5. Dense(stored, ts, nextId + 1)
  <2>1. \A k \in DOMAIN f.ins : f.ins[k] \in 0..(nextId - 1)
    BY <1>2, <1>3
  <2> QED
    BY <1>3, <2>1, RecordNext DEF PlanInv
<1>6. Dense(stored, us, (nextId + 1) + 1)
  <2>1. \A k \in DOMAIN u.ins : u.ins[k] \in 0..((nextId + 1) - 1)
    BY <1>2, <1>4
  <2> QED
    BY <1>4, <1>5, <2>1, RecordNext
<1>7. transforms \o <<f>> = ts /\ transforms \o <<f, u>> = us
  <2>1. transforms \in Seq(Transform)
    BY DEF PlanInv, Dense
  <2> QED
    BY <1>3, <1>4, <2>1, ConcatIsAppend
<1> HIDE DEF ts, us
<1>8. CASE delta
  <2>1. /\ transforms' = us /\ final' \in Nat /\ nextId' = (nextId + 1) + 1
        /\ (nextId + 1) + 1 \in Nat /\ nextId <= (nextId + 1) + 1
    BY <1>1, <1>2, <1>7, <1>8
  <2>2. us \in Seq(Transform)
    BY <1>6 DEF Dense
  <2>3. inputs' \in Seq(0..(((nextId + 1) + 1) - 1)) /\ Len(inputs') <= Len(FieldLzWidths)
    BY <1>1, <1>2, <2>1, IdLists, IdsStay
  <2> QED
    BY <1>1, <1>6, <2>1, <2>2, <2>3, AppendRecordKeeps
<1>9. CASE ~ delta
  <2>1. /\ transforms' = ts /\ final' \in Nat /\ nextId' = nextId + 1
        /\ nextId + 1 \in Nat /\ nextId <= nextId + 1
    BY <1>1, <1>2, <1>7, <1>9
  <2>2. ts \in Seq(Transform)
    BY <1>5 DEF Dense
  <2>3. inputs' \in Seq(0..((nextId + 1) - 1)) /\ Len(inputs') <= Len(FieldLzWidths)
    BY <1>1, <1>2, <2>1, IdLists, IdsStay
  <2> QED
    BY <1>1, <1>5, <2>1, <2>2, <2>3, AppendRecordKeeps
<1> QED
  BY <1>8, <1>9

\* Every step of the planner keeps the strengthened invariant.
LEMMA PlanInvNext ==
  ASSUME PlanInv, [PlanStep]_planVars
  PROVE  PlanInv'
<1>1. CASE PlanDictionary
  BY <1>1, PlanDictionaryKeeps
<1>2. CASE PlanSplit
  <2>1. /\ phase = "literals" /\ phase' = "lanes" /\ inputs' = inputs /\ lanes' = lanes
        /\ nextId' = nextId /\ stored' = stored /\ transforms' = transforms
        /\ chunkLen' = chunkLen /\ entries' = entries /\ delta' = delta /\ final' = final
    BY <1>2 DEF PlanSplit, planned
  <2>2. entries' \in SideStreamSizes(chunkLen)'
    BY <2>1 DEF PlanInv, PlanTypeOK, SideStreamSizes
  <2>3. PlanTypeOK'
    BY <2>1, <2>2 DEF PlanInv, PlanTypeOK
  <2> QED
    BY <2>1, <2>3 DEF PlanInv
<1>3. CASE AppendLane
  BY <1>3, AppendLaneKeeps
<1>4. CASE CloseLanes
  BY <1>4, CloseLanesKeeps
<1>5. CASE PlanRawLiterals
  <2>1. /\ AppendSideStream(1) /\ inputs = <<>>
        /\ phase' = "streams" /\ UNCHANGED <<planned, lanes, final>>
    BY <1>5 DEF PlanRawLiterals, PlanInv
  <2>2. Len(inputs) < Len(FieldLzWidths)
    BY <2>1, IdLists
  <2> QED
    BY <2>1, <2>2, AppendSideStreamKeeps
<1>6. CASE AppendRaw
  <2>1. /\ AppendSideStream(Len(inputs) + 1) /\ Len(inputs) < Len(FieldLzWidths)
        /\ phase' = "streams" /\ UNCHANGED <<planned, lanes, final>>
    BY <1>6 DEF AppendRaw
  <2>2. Len(inputs) \in Nat /\ Len(inputs) < 5
    BY <2>1, IdLists
  <2>3. Len(inputs) + 1 \in 1..5
    BY <2>2
  <2> QED
    BY <2>1, <2>3, AppendSideStreamKeeps
<1>7. CASE CloseGraph
  BY <1>7, CloseGraphKeeps
<1>8. CASE UNCHANGED planVars
  <2>1. /\ phase' = phase /\ inputs' = inputs /\ lanes' = lanes
        /\ nextId' = nextId /\ stored' = stored /\ transforms' = transforms
        /\ chunkLen' = chunkLen /\ entries' = entries /\ delta' = delta /\ final' = final
    BY <1>8 DEF planVars, planned
  <2>2. entries' \in SideStreamSizes(chunkLen)'
    BY <2>1 DEF PlanInv, PlanTypeOK, SideStreamSizes
  <2>3. PlanTypeOK'
    BY <2>1, <2>2 DEF PlanInv, PlanTypeOK
  <2> QED
    BY <2>1, <2>3 DEF PlanInv
<1> QED
  BY <1>1, <1>2, <1>3, <1>4, <1>5, <1>6, <1>7, <1>8 DEF PlanStep

-----------------------------------------------------------------------------
\* Lemmas about what a plan says

\* The explanation m, and what it says of id n.
Adding(m, n, known) == [s \in 0..n |-> IF s = n THEN known ELSE m[s]]

LEMMA AddedExplanation ==
  ASSUME NEW n \in Nat, NEW m \in Explanations(n), NEW known \in Known
  PROVE  /\ Adding(m, n, known) \in Explanations(n + 1)
         /\ Adding(m, n, known)[n] = known
         /\ \A s \in 0..(n - 1) : Adding(m, n, known)[s] = m[s]
<1>1. (n + 1) - 1 = n /\ n \in 0..n
  OBVIOUS
<1>2. \A s \in 0..n : s = n \/ s \in 0..(n - 1)
  OBVIOUS
<1>3. \A s \in 0..(n - 1) : s \in 0..n /\ s # n
  OBVIOUS
<1> HIDE DEF Known
<1> QED
  BY <1>1, <1>2, <1>3 DEF Adding, Explanations

\* The ids two lists name are ids handed out.
LEMMA IdsHandedOut ==
  ASSUME NEW st, NEW ts, NEW n, Dense(st, ts, n)
  PROVE  /\ \A i \in DOMAIN st : st[i].id \in 0..(n - 1)
         /\ \A j \in DOMAIN ts : ts[j].out \in 0..(n - 1)
         /\ \A j \in DOMAIN ts : \A k \in DOMAIN ts[j].ins : ts[j].ins[k] \in 0..(n - 1)
<1>1. \A i \in DOMAIN st : st[i].id \in 0..(n - 1)
  BY DEF Dense, StoredBy
<1>2. \A j \in DOMAIN ts : ts[j].out \in 0..(n - 1)
  BY DEF Dense, FilledBy
<1>3. ASSUME NEW j \in DOMAIN ts, NEW k \in DOMAIN ts[j].ins
      PROVE  ts[j].ins[k] \in 0..(n - 1)
  <2>1. /\ ts \in Seq(Transform) /\ StoredBy(st) \subseteq 0..(n - 1)
        /\ \/ ts[j].ins[k] \in StoredBy(st)
           \/ \E i \in 1..(j - 1) : ts[i].out = ts[j].ins[k]
    BY <1>3 DEF Dense, InOrder
  <2>2. \A i \in 1..(j - 1) : i \in DOMAIN ts
    <3>1. DOMAIN ts = 1..Len(ts) /\ Len(ts) \in Nat
      BY <2>1
    <3> QED
      BY <3>1
  <2> QED
    BY <1>2, <2>1, <2>2
<1> QED
  BY <1>1, <1>2, <1>3

\* A record that passes still does, with the same result, when more ids are
\* explained.
LEMMA PassesStays ==
  ASSUME NEW r, NEW m, NEW u,
         \A k \in DOMAIN r.ins : u[r.ins[k]] = m[r.ins[k]]
  PROVE  /\ Taken(u, r) = Taken(m, r)
         /\ Passes(u, r) <=> Passes(m, r)
         /\ Result(u, r) = Result(m, r)
<1>1. Taken(u, r) = Taken(m, r)
  BY DEF Taken
<1>2. Result(u, r) = Result(m, r)
  BY <1>1 DEF Result
<1>3. Passes(u, r) <=> Passes(m, r)
  BY <1>1, Zenon DEF Passes
<1> QED
  BY <1>1, <1>2, <1>3

\* Storing a stream under the next id explains that id.
LEMMA StoreExplains ==
  ASSUME NEW m, NEW st, NEW ts, NEW n, Sound(m, st, ts, n),
         NEW x \in Stored, x.id = n, x.payload.means # Garbage
  PROVE  /\ [payload |-> x.payload, width |-> 0] \in Known
         /\ Sound(Adding(m, n, [payload |-> x.payload, width |-> 0]), Append(st, x), ts, n + 1)
<1> DEFINE gain == [payload |-> x.payload, width |-> 0]
           v == Adding(m, n, gain)
           u == Append(st, x)
           l == Len(st)
<1>1. /\ n \in Nat /\ st \in Seq(Stored) /\ ts \in Seq(Transform) /\ l \in Nat
      /\ m \in Explanations(n) /\ Dense(st, ts, n) /\ FilledOnce(st, ts)
      /\ \A i \in DOMAIN st : m[st[i].id] = [payload |-> st[i].payload, width |-> 0]
      /\ \A j \in DOMAIN ts : Passes(m, ts[j]) /\ m[ts[j].out] = Result(m, ts[j])
  BY DEF Sound, Dense
<1>2. gain \in Known
  BY DEF Known, Stored
<1> HIDE DEF gain
<1>3. v \in Explanations(n + 1) /\ v[n] = gain /\ \A s \in 0..(n - 1) : v[s] = m[s]
  <2>1. n \in Nat /\ m \in Explanations(n)
    BY <1>1
  <2> QED
    BY <1>2, <2>1, AddedExplanation
<1> HIDE DEF v
<1>4. /\ DOMAIN st = 1..l /\ DOMAIN u = 1..(l + 1)
      /\ \A k \in 1..l : u[k] = st[k]
      /\ u[l + 1] = x
  BY <1>1, Appended
<1>5. Dense(u, ts, n + 1)
  BY <1>1, StoreNext
<1> HIDE DEF u
<1>6. \A i \in DOMAIN u :
        \/ i \in DOMAIN st /\ u[i] = st[i]
        \/ i = l + 1 /\ i \notin DOMAIN st /\ u[i] = x
  BY <1>1, <1>4
<1>7. /\ \A i \in DOMAIN st : st[i].id \in 0..(n - 1) /\ st[i].id # n
      /\ \A j \in DOMAIN ts : ts[j].out \in 0..(n - 1) /\ ts[j].out # n
      /\ \A j \in DOMAIN ts : \A k \in DOMAIN ts[j].ins : ts[j].ins[k] \in 0..(n - 1)
  <2>1. n \notin 0..(n - 1)
    BY <1>1
  <2> QED
    BY <1>1, <2>1, IdsHandedOut
<1>8. FilledOnce(u, ts)
  BY <1>1, <1>6, <1>7 DEF FilledOnce
<1>9. ASSUME NEW i \in DOMAIN u
      PROVE  v[u[i].id] = [payload |-> u[i].payload, width |-> 0]
  <2>1. CASE i \in DOMAIN st /\ u[i] = st[i]
    <3>1. v[st[i].id] = m[st[i].id]
      BY <1>3, <1>7, <2>1
    <3>2. m[st[i].id] = [payload |-> st[i].payload, width |-> 0]
      BY <1>1, <2>1
    <3> QED
      BY <2>1, <3>1, <3>2
  <2>2. CASE u[i] = x
    <3>1. v[n] = [payload |-> x.payload, width |-> 0]
      BY <1>3 DEF gain
    <3> QED
      BY <2>2, <3>1
  <2> QED
    BY <1>6, <2>1, <2>2
<1>10. ASSUME NEW j \in DOMAIN ts
       PROVE  Passes(v, ts[j]) /\ v[ts[j].out] = Result(v, ts[j])
  <2>1. \A k \in DOMAIN ts[j].ins : v[ts[j].ins[k]] = m[ts[j].ins[k]]
    BY <1>3, <1>7
  <2>2. (Passes(v, ts[j]) <=> Passes(m, ts[j])) /\ Result(v, ts[j]) = Result(m, ts[j])
    BY <2>1, PassesStays
  <2> QED
    BY <1>1, <1>3, <1>7, <2>2
<1>11. Sound(v, u, ts, n + 1)
  BY <1>3, <1>5, <1>8, <1>9, <1>10 DEF Sound
<1> QED
  BY <1>2, <1>11 DEF v, u, gain

\* A record that passes explains the next id by its result.
LEMMA RecordExplains ==
  ASSUME NEW m, NEW st, NEW ts, NEW n, Sound(m, st, ts, n),
         NEW r \in Transform, r.out = n,
         \A k \in DOMAIN r.ins : r.ins[k] \in 0..(n - 1),
         Passes(m, r), Result(m, r) \in Known
  PROVE  Sound(Adding(m, n, Result(m, r)), st, Append(ts, r), n + 1)
<1> DEFINE gain == Result(m, r)
           v == Adding(m, n, gain)
           u == Append(ts, r)
           l == Len(ts)
<1>1. /\ n \in Nat /\ st \in Seq(Stored) /\ ts \in Seq(Transform) /\ l \in Nat
      /\ m \in Explanations(n) /\ Dense(st, ts, n) /\ FilledOnce(st, ts)
      /\ \A i \in DOMAIN st : m[st[i].id] = [payload |-> st[i].payload, width |-> 0]
      /\ \A j \in DOMAIN ts : Passes(m, ts[j]) /\ m[ts[j].out] = Result(m, ts[j])
  BY DEF Sound, Dense
<1>2. gain \in Known
  OBVIOUS
<1> HIDE DEF gain
<1>3. v \in Explanations(n + 1) /\ v[n] = gain /\ \A s \in 0..(n - 1) : v[s] = m[s]
  <2>1. n \in Nat /\ m \in Explanations(n)
    BY <1>1
  <2> QED
    BY <1>2, <2>1, AddedExplanation
<1> HIDE DEF v
<1>4. /\ DOMAIN ts = 1..l /\ DOMAIN u = 1..(l + 1)
      /\ \A k \in 1..l : u[k] = ts[k]
      /\ u[l + 1] = r
  <2> HIDE DEF Transform
  <2> QED
    BY <1>1, Appended
<1>5. Dense(st, u, n + 1)
  BY <1>1, RecordNext
<1> HIDE DEF u
<1>6. \A j \in DOMAIN u :
        \/ j \in DOMAIN ts /\ u[j] = ts[j]
        \/ j = l + 1 /\ j \notin DOMAIN ts /\ u[j] = r
  BY <1>1, <1>4
<1>7. /\ \A i \in DOMAIN st : st[i].id \in 0..(n - 1) /\ st[i].id # n
      /\ \A j \in DOMAIN ts : ts[j].out \in 0..(n - 1) /\ ts[j].out # n
      /\ \A j \in DOMAIN ts : \A k \in DOMAIN ts[j].ins : ts[j].ins[k] \in 0..(n - 1)
  <2>1. n \notin 0..(n - 1)
    BY <1>1
  <2> QED
    BY <1>1, <2>1, IdsHandedOut
<1>8. FilledOnce(st, u)
  BY <1>1, <1>6, <1>7 DEF FilledOnce
<1>9. \A i \in DOMAIN st : v[st[i].id] = [payload |-> st[i].payload, width |-> 0]
  BY <1>1, <1>3, <1>7
<1>10. ASSUME NEW j \in DOMAIN u
       PROVE  Passes(v, u[j]) /\ v[u[j].out] = Result(v, u[j])
  <2>1. CASE j \in DOMAIN ts /\ u[j] = ts[j]
    <3>1. \A k \in DOMAIN ts[j].ins : v[ts[j].ins[k]] = m[ts[j].ins[k]]
      BY <1>3, <1>7, <2>1
    <3>2. (Passes(v, ts[j]) <=> Passes(m, ts[j])) /\ Result(v, ts[j]) = Result(m, ts[j])
      BY <3>1, PassesStays
    <3> QED
      BY <1>1, <1>3, <1>7, <2>1, <3>2
  <2>2. CASE u[j] = r
    <3>1. \A k \in DOMAIN r.ins : v[r.ins[k]] = m[r.ins[k]]
      BY <1>3
    <3>2. (Passes(v, r) <=> Passes(m, r)) /\ Result(v, r) = Result(m, r)
      BY <3>1, PassesStays
    <3> QED
      BY <1>3, <2>2, <3>2 DEF gain
  <2> QED
    BY <1>6, <2>1, <2>2
<1>11. Sound(v, st, u, n + 1)
  BY <1>3, <1>5, <1>8, <1>9, <1>10 DEF Sound
<1> QED
  BY <1>11 DEF v, u, gain

-----------------------------------------------------------------------------
\* Lemmas about what the five transforms make of a plan

\* What is said of a stored stream.
AsStored(means, bytes, zstd) ==
  [payload |-> [means |-> means, bytes |-> bytes, zstd |-> zstd], width |-> 0]

SaysStored(m, s, means, bytes, zstd) == m[s] = AsStored(means, bytes, zstd)

IsRecord(r, id, ins, out, private) == r = Record(id, ins, out, private)

\* Record r passes, and restores `means`, so many bytes, of width w.
Makes(m, r, means, bytes, w) ==
  /\ Passes(m, r)
  /\ Result(m, r) = [payload |-> Rebuilt(means, bytes), width |-> w]
  /\ Result(m, r) \in Known

\* zstd gives a compressed stream its bytes back, and a width.
LEMMA ZstdPasses ==
  ASSUME NEW m, NEW a, NEW n, NEW means \in Meanings, means # Garbage,
         NEW bytes \in 0..MaxChunkBytes, NEW width \in {1, 2, 4}, bytes % width = 0,
         MaxChunkBytes \in Nat, SaysStored(m, a, means, bytes, TRUE),
         NEW r, IsRecord(r, "zstd", <<a>>, n, width)
  PROVE  Makes(m, r, means, bytes, width)
<1>1. /\ r.id = "zstd" /\ r.ins = <<a>> /\ r.private = width
      /\ DOMAIN r.ins = {1} /\ r.ins[1] = a /\ Len(r.ins) = 1
  BY DEF IsRecord, Record
<1>2. Taken(m, r)[1] = m[a].payload
  BY <1>1 DEF Taken
<1>3. m[a].payload = [means |-> means, bytes |-> bytes, zstd |-> TRUE]
  BY DEF SaysStored, AsStored
<1> DEFINE xs == Taken(m, r)
<1>4. /\ xs[1].means = means /\ xs[1].bytes = bytes /\ xs[1].zstd
      /\ xs[1].bytes <= MaxChunkBytes
  <2>1. xs[1] = [means |-> means, bytes |-> bytes, zstd |-> TRUE]
    BY <1>2, <1>3
  <2> HIDE DEF xs
  <2>2. bytes <= MaxChunkBytes
    OBVIOUS
  <2> QED
    BY <2>1, <2>2
<1> HIDE DEF xs
<1>5. Passes(m, r)
  <2>1. CodecAccepts(r, xs)
    BY <1>1, <1>4 DEF CodecAccepts
  <2>2. Map!Arity("zstd") = 1 /\ Map!AcceptsHeader("zstd", width)
    BY DEF Map!Arity, Map!AcceptsHeader
  <2>3. \A k \in DOMAIN r.ins : Map!AcceptsWidth("zstd", k, width, m[r.ins[k]].width)
    BY DEF Map!AcceptsWidth
  <2> QED
    BY <1>1, <2>1, <2>2, <2>3 DEF Passes, xs
<1>6. Result(m, r) = [payload |-> Rebuilt(means, bytes), width |-> width]
  <2>1. Restored(r, xs) = Rebuilt(means, bytes)
    BY <1>1, <1>4 DEF Restored
  <2>2. Map!OutputWidth("zstd", width) = width
    BY DEF Map!OutputWidth
  <2> QED
    BY <1>1, <2>1, <2>2 DEF Result, xs
<1>7. [payload |-> Rebuilt(means, bytes), width |-> width] \in Known
  <2>1. bytes \in Nat
    OBVIOUS
  <2> QED
    BY <2>1 DEF Known, Rebuilt, Payload
<1> QED
  BY <1>5, <1>6, <1>7 DEF Makes

\* The meanings are told apart by what they are made of.
LEMMA MeaningsDiffer ==
  /\ \A k \in DOMAIN FieldLzWidths : Side(k) \in Meanings /\ Side(k) # Garbage
  /\ \A k \in 1..SplitLanes : Lane(k) \in Meanings /\ Lane(k) # Garbage
  /\ {Table, Codes, Parsed, ChunkOf} \subseteq Meanings \ {Garbage}
  BY DEF Side, Lane, Table, Codes, Parsed, ChunkOf, Garbage, Meanings

\* What a plan's sizes are bounded by.
LEMMA SizesBounded ==
  ASSUME PlanInv
  PROVE  /\ chunkLen \in Nat /\ MaxChunkBytes \in Nat
         /\ U32Width * chunkLen \in 0..MaxChunkBytes
         /\ \A k \in 1..5 : entries[k] \in 0..chunkLen
         /\ FieldLzWidths[1] = 4 /\ \A k \in 1..5 : FieldLzWidths[k] \in {2, 4}
         /\ DOMAIN FieldLzWidths = 1..5 /\ Len(FieldLzWidths) = 5
<1>1. /\ DOMAIN FieldLzWidths = 1..5 /\ Len(FieldLzWidths) = 5
      /\ FieldLzWidths[1] = 4 /\ \A k \in 1..5 : FieldLzWidths[k] \in {2, 4}
  BY PlannerAssumption
<1>2. /\ chunkLen \in 1..MaxChunk /\ MaxChunk \in Nat
      /\ entries \in SideStreamSizes(chunkLen)
  BY PlannerAssumption DEF PlanInv, PlanTypeOK
<1>3. \A k \in 1..5 : entries[k] \in 0..chunkLen
  BY <1>1, <1>2 DEF SideStreamSizes
<1>4. chunkLen \in Nat /\ MaxChunkBytes \in Nat /\ U32Width * chunkLen \in 0..MaxChunkBytes
  BY <1>2 DEF MaxChunkBytes, U32Width
<1> QED
  BY <1>1, <1>3, <1>4

\* Four whole lanes make the literals.
LEMMA SplitPasses ==
  ASSUME PlanInv, NEW m, NEW ins \in Seq(Nat), Len(ins) = SplitLanes, NEW n,
         \A k \in DOMAIN ins : Holds(m, ins[k], Lane(k), entries[1], 1),
         NEW r, r = Record("transpose_split4", ins, n, 0)
  PROVE  Makes(m, r, Side(1), entries[1] * 4, 4)
<1> DEFINE xs == Taken(m, r)
<1>1. r.id = "transpose_split4" /\ r.ins = ins /\ r.private = 0
  BY DEF Record
<1>2. DOMAIN ins = 1..4 /\ SplitLanes = 4
  BY PlannerAssumption
<1>3. xs = [k \in DOMAIN xs |-> Rebuilt(Lane(k), entries[1])] /\ DOMAIN xs = 1..4
  BY <1>1, <1>2 DEF Taken, Holds
<1>4. \A k \in DOMAIN xs : xs[k].bytes = entries[1]
  BY <1>3 DEF Rebuilt
<1>5. entries[1] \in 0..chunkLen /\ chunkLen \in Nat
  BY SizesBounded
<1> HIDE DEF xs
<1>6. CodecAccepts(r, xs)
  <2>1. 1 \in DOMAIN xs
    BY <1>3
  <2>2. \A k \in DOMAIN xs : xs[k].bytes = xs[1].bytes
    BY <1>4, <2>1
  <2>3. xs[1].bytes <= chunkLen
    BY <1>4, <1>5, <2>1
  <2> QED
    BY <1>1, <2>2, <2>3 DEF CodecAccepts
<1>7. Passes(m, r)
  <2>1. \A k \in DOMAIN ins : m[ins[k]].width \in {0, 1}
    BY DEF Holds
  <2>2. \A k \in DOMAIN ins : Map!AcceptsWidth("transpose_split4", k, 0, m[ins[k]].width)
    BY <2>1 DEF Map!AcceptsWidth, Map!NoWidth
  <2>3. Map!Arity("transpose_split4") = SplitLanes /\ Map!AcceptsHeader("transpose_split4", 0)
    BY DEF Map!Arity, Map!AcceptsHeader
  <2> QED
    BY <1>1, <1>6, <2>2, <2>3 DEF Passes, xs
<1>8. Restored(r, xs) = Rebuilt(Side(1), SplitLanes * entries[1])
  BY <1>1, <1>3 DEF Restored
<1>9. Result(m, r) = [payload |-> Rebuilt(Side(1), entries[1] * 4), width |-> 4]
  <2>1. SplitLanes * entries[1] = entries[1] * 4
    BY <1>2, <1>5
  <2> QED
    BY <1>1, <1>8, <2>1 DEF Result, xs, Map!OutputWidth
<1>10. [payload |-> Rebuilt(Side(1), entries[1] * 4), width |-> 4] \in Known
  <2>1. entries[1] * 4 \in Nat
    BY <1>5
  <2>2. Side(1) \in Meanings /\ Side(1) # Garbage
    BY MeaningsDiffer, SizesBounded
  <2> QED
    BY <2>1, <2>2 DEF Known, Rebuilt, Payload
<1> QED
  BY <1>7, <1>9, <1>10 DEF Makes

\* A table and codes of the width the record names make the literals.
LEMMA DictionaryPasses ==
  ASSUME PlanInv, NEW m, NEW a, NEW c, NEW n, NEW width \in {1, 2}, NEW distinct \in Nat,
         m[a] = AsStored(Table, U32Width * distinct, FALSE),
         Holds(m, c, Codes, width * entries[1], width),
         NEW r, r = Record("literal_dict_u32", <<a, c>>, n, width)
  PROVE  Makes(m, r, Side(1), entries[1] * 4, 4)
<1> DEFINE xs == Taken(m, r)
<1>1. /\ r.id = "literal_dict_u32" /\ r.ins = <<a, c>> /\ r.private = width
      /\ DOMAIN r.ins = {1, 2} /\ r.ins[1] = a /\ r.ins[2] = c /\ Len(r.ins) = 2
  BY DEF Record
<1>2. xs[1] = m[a].payload /\ xs[2] = Rebuilt(Codes, width * entries[1])
  BY <1>1 DEF Taken, Holds
<1>3. entries[1] \in Nat /\ chunkLen \in Nat
  BY SizeFacts
<1> HIDE DEF xs
<1>4. CodecAccepts(r, xs)
  <2>1. xs[1].bytes = 4 * distinct /\ xs[2].bytes = width * entries[1]
    BY <1>2 DEF Rebuilt, U32Width, AsStored
  <2>2. (4 * distinct) % 4 = 0
    OBVIOUS
  <2>3. (width * entries[1]) % width = 0
    BY <1>3
  <2> QED
    BY <1>1, <2>1, <2>2, <2>3 DEF CodecAccepts, U32Width
<1>5. Passes(m, r)
  <2>1. m[a].width = 0 /\ m[c].width \in {0, width}
    BY DEF Holds, AsStored
  <2>2. \A k \in {1, 2} : Map!AcceptsWidth("literal_dict_u32", k, width, m[r.ins[k]].width)
    BY <1>1, <2>1 DEF Map!AcceptsWidth, Map!NoWidth
  <2>3. Map!Arity("literal_dict_u32") = 2 /\ Map!AcceptsHeader("literal_dict_u32", width)
    BY DEF Map!Arity, Map!AcceptsHeader
  <2> QED
    BY <1>1, <1>4, <2>2, <2>3 DEF Passes, xs
<1>6. Restored(r, xs) = Rebuilt(Side(1), U32Width * entries[1])
  <2>1. xs[1].means = Table
    BY <1>2 DEF AsStored
  <2> QED
    BY <1>1, <1>2, <2>1 DEF Restored
<1>7. Result(m, r) = [payload |-> Rebuilt(Side(1), entries[1] * 4), width |-> 4]
  <2>1. U32Width * entries[1] = entries[1] * 4
    BY <1>3 DEF U32Width
  <2> QED
    BY <1>1, <1>6, <2>1 DEF Result, xs, Map!OutputWidth
<1>8. [payload |-> Rebuilt(Side(1), entries[1] * 4), width |-> 4] \in Known
  <2>1. entries[1] * 4 \in Nat
    BY <1>3
  <2>2. Side(1) \in Meanings /\ Side(1) # Garbage
    BY MeaningsDiffer, SizesBounded
  <2> QED
    BY <2>1, <2>2 DEF Known, Rebuilt, Payload
<1> QED
  BY <1>5, <1>7, <1>8 DEF Makes

\* Five side streams make what FieldLZ was run on.
LEMMA FieldLzPasses ==
  ASSUME PlanInv, NEW m, NEW ins \in Seq(Nat), Len(ins) = Len(FieldLzWidths), NEW n,
         \A k \in DOMAIN ins :
           Holds(m, ins[k], Side(k), entries[k] * FieldLzWidths[k], FieldLzWidths[k]),
         NEW r, r = Record("field_lz", ins, n, chunkLen)
  PROVE  Makes(m, r, IF delta THEN Parsed ELSE ChunkOf, U32Width * chunkLen, 4)
<1> DEFINE xs == Taken(m, r)
           whole == Rebuilt(IF delta THEN Parsed ELSE ChunkOf, U32Width * chunkLen)
<1>1. r.id = "field_lz" /\ r.ins = ins /\ r.private = chunkLen
  BY DEF Record
<1>2. xs = [k \in DOMAIN xs |-> Rebuilt(Side(k), entries[k] * FieldLzWidths[k])]
  BY <1>1 DEF Taken, Holds
<1> HIDE DEF xs
<1>3. CodecAccepts(r, xs)
  BY <1>1 DEF CodecAccepts
<1>4. Passes(m, r)
  <2>1. \A k \in DOMAIN ins : m[ins[k]].width \in {0, FieldLzWidths[k]}
    BY DEF Holds
  <2>2. \A k \in DOMAIN ins : Map!AcceptsWidth("field_lz", k, chunkLen, m[ins[k]].width)
    BY <2>1 DEF Map!AcceptsWidth, Map!NoWidth
  <2>3. Map!Arity("field_lz") = Len(FieldLzWidths) /\ Map!AcceptsHeader("field_lz", chunkLen)
    BY DEF Map!Arity, Map!AcceptsHeader
  <2> QED
    BY <1>1, <1>3, <2>2, <2>3 DEF Passes, xs
<1>5. Restored(r, xs) = whole
  BY <1>1, <1>2 DEF Restored
<1>6. Result(m, r) = [payload |-> whole, width |-> 4]
  BY <1>1, <1>5 DEF Result, xs, Map!OutputWidth
<1>7. [payload |-> whole, width |-> 4] \in Known
  <2>1. U32Width * chunkLen \in Nat
    BY SizesBounded
  <2>2. \A x \in {Parsed, ChunkOf} : x \in Meanings /\ x # Garbage
    BY MeaningsDiffer
  <2> QED
    BY <2>1, <2>2 DEF Known, Rebuilt, Payload
<1> QED
  BY <1>4, <1>6, <1>7 DEF Makes

\* delta_int turns the deltas into the chunk.
LEMMA DeltaPasses ==
  ASSUME PlanInv, NEW m, NEW a, NEW n,
         m[a] = [payload |-> Rebuilt(Parsed, U32Width * chunkLen), width |-> 4],
         NEW r, r = Record("delta_int", <<a>>, n, 0)
  PROVE  Makes(m, r, ChunkOf, U32Width * chunkLen, 4)
<1> DEFINE xs == Taken(m, r)
<1>1. /\ r.id = "delta_int" /\ r.ins = <<a>> /\ r.private = 0
      /\ DOMAIN r.ins = {1} /\ r.ins[1] = a /\ Len(r.ins) = 1
  BY DEF Record
<1>2. xs[1] = Rebuilt(Parsed, U32Width * chunkLen)
  BY <1>1 DEF Taken
<1> HIDE DEF xs
<1>3. xs[1].means = Parsed /\ xs[1].bytes = 4 * chunkLen
  BY <1>2 DEF Rebuilt, U32Width
<1>4. chunkLen \in Nat /\ (4 * chunkLen) % 4 = 0 /\ 4 * chunkLen \in Nat
  BY SizesBounded
<1>5. CodecAccepts(r, xs)
  BY <1>1, <1>3, <1>4 DEF CodecAccepts, U32Width
<1>6. Passes(m, r)
  <2>1. Map!Arity("delta_int") = 1 /\ Map!AcceptsHeader("delta_int", 0)
    BY DEF Map!Arity, Map!AcceptsHeader
  <2>2. m[a].width = 4
    OBVIOUS
  <2>3. \A k \in DOMAIN r.ins : Map!AcceptsWidth("delta_int", k, 0, m[r.ins[k]].width)
    BY <1>1, <2>2 DEF Map!AcceptsWidth
  <2> QED
    BY <1>1, <1>5, <2>1, <2>3 DEF Passes, xs
<1>7. Result(m, r) = [payload |-> Rebuilt(ChunkOf, U32Width * chunkLen), width |-> 4]
  <2>1. Restored(r, xs) = Rebuilt(ChunkOf, xs[1].bytes)
    BY <1>1, <1>3 DEF Restored
  <2> QED
    BY <1>1, <1>3, <2>1 DEF Result, xs, U32Width, Map!OutputWidth
<1>8. [payload |-> Rebuilt(ChunkOf, U32Width * chunkLen), width |-> 4] \in Known
  <2>1. U32Width * chunkLen \in Nat
    BY <1>4 DEF U32Width
  <2>2. ChunkOf \in Meanings /\ ChunkOf # Garbage
    BY MeaningsDiffer
  <2> QED
    BY <2>1, <2>2 DEF Known, Rebuilt, Payload
<1> QED
  BY <1>6, <1>7, <1>8 DEF Makes

-----------------------------------------------------------------------------
\* Lemmas about what a route adds to a plan

\* A stored stream is read by no record yet.
LEMMA StoredIsUnread ==
  ASSUME NEW P, NEW ts, NEW n \in Nat, AllReadBut(P, ts, n)
  PROVE  AllReadBut(P \cup {n}, ts, n + 1)
<1>1. \A s \in 0..((n + 1) - 1) : s = n \/ s \in 0..(n - 1)
  OBVIOUS
<1> QED
  BY <1>1 DEF AllReadBut

\* A record reads its inputs, and nothing reads its output yet.
LEMMA OutputIsUnread ==
  ASSUME NEW P, NEW Q, NEW ts \in Seq(Transform), NEW r \in Transform, NEW n \in Nat,
         AllReadBut(P, ts, n), n \in Q,
         \A s \in P : s \in Q \/ \E k \in DOMAIN r.ins : r.ins[k] = s
  PROVE  AllReadBut(Q, Append(ts, r), n + 1)
<1> DEFINE u == Append(ts, r)
           l == Len(ts)
<1>1. /\ DOMAIN ts = 1..l /\ DOMAIN u = 1..(l + 1) /\ l \in Nat
      /\ \A k \in 1..l : u[k] = ts[k]
      /\ u[l + 1] = r
  <2> HIDE DEF Transform
  <2> QED
    BY Appended
<1> HIDE DEF u
<1>2. \A j \in DOMAIN ts : j \in DOMAIN u /\ u[j] = ts[j]
  BY <1>1
<1>3. l + 1 \in DOMAIN u
  BY <1>1
<1>4. ASSUME NEW s \in 0..((n + 1) - 1), s \notin Q
      PROVE  \E j \in DOMAIN u : \E k \in DOMAIN u[j].ins : u[j].ins[k] = s
  <2>1. s \in 0..(n - 1)
    BY <1>4
  <2>2. CASE s \in P
    BY <1>1, <1>3, <1>4, <2>2
  <2>3. CASE s \notin P
    BY <1>2, <2>1, <2>3 DEF AllReadBut
  <2> QED
    BY <2>2, <2>3
<1>5. AllReadBut(Q, u, n + 1)
  BY <1>4 DEF AllReadBut
<1> QED
  BY <1>5 DEF u

\* A record other than field_lz leaves the plan without one.
LEMMA StillNoFieldLz ==
  ASSUME NEW ts \in Seq(Transform), NEW r \in Transform, NoFieldLz(ts), r.id # "field_lz"
  PROVE  NoFieldLz(Append(ts, r))
<1> HIDE DEF Transform
<1>1. /\ DOMAIN ts = 1..Len(ts) /\ DOMAIN Append(ts, r) = 1..(Len(ts) + 1) /\ Len(ts) \in Nat
      /\ \A k \in 1..Len(ts) : Append(ts, r)[k] = ts[k]
      /\ Append(ts, r)[Len(ts) + 1] = r
  BY Appended
<1>2. \A j \in DOMAIN Append(ts, r) :
        \/ j \in DOMAIN ts /\ Append(ts, r)[j] = ts[j]
        \/ Append(ts, r)[j] = r
  BY <1>1
<1> QED
  BY <1>2 DEF NoFieldLz

\* A plan so far: m explains its ids, all but those of P are read, and FieldLZ is
\* still to come.
Underway(m, st, ts, n, P) == Sound(m, st, ts, n) /\ AllReadBut(P, ts, n) /\ NoFieldLz(ts)

\* The plan after `route`, which left `means` in its output stream, explained by
\* v, and took no more ids and records than these.
RouteExplains(v, m, st, ts, n, P, route, means, bytes, w, ids, records) ==
  /\ Underway(v, st \o route.stored, ts \o route.transforms, route.next,
              P \cup {route.output})
  /\ \A s \in 0..(n - 1) : v[s] = m[s]
  /\ Holds(v, route.output, means, bytes, w)
  /\ route.next <= n + ids
  /\ Len(ts \o route.transforms) <= Len(ts) + records

\* v says what m says of the ids below n, and `gain` of n.
Extends(v, m, n, gain) == v[n] = gain /\ \A s \in 0..(n - 1) : v[s] = m[s]

\* One more stored stream.
LEMMA StoreUnderway ==
  ASSUME NEW m, NEW st, NEW ts, NEW n, NEW P, Underway(m, st, ts, n, P),
         NEW means \in Meanings, means # Garbage, NEW bytes \in Nat, NEW zstd \in BOOLEAN
  PROVE  /\ StoredStream(n, means, bytes, zstd) \in Stored
         /\ Underway(Adding(m, n, AsStored(means, bytes, zstd)),
                     Append(st, StoredStream(n, means, bytes, zstd)), ts, n + 1, P \cup {n})
         /\ Extends(Adding(m, n, AsStored(means, bytes, zstd)), m, n, AsStored(means, bytes, zstd))
<1> DEFINE x == StoredStream(n, means, bytes, zstd)
           gain == AsStored(means, bytes, zstd)
<1>1. n \in Nat /\ m \in Explanations(n) /\ Sound(m, st, ts, n) /\ AllReadBut(P, ts, n)
      /\ NoFieldLz(ts)
  BY DEF Underway, Sound, Dense
<1>2. x \in Stored /\ x.id = n
  BY <1>1, StoredType
<1>3. [payload |-> x.payload, width |-> 0] = gain /\ x.payload.means # Garbage
  BY DEF StoredStream, AsStored
<1> HIDE DEF x, gain
<1>4. gain \in Known /\ Sound(Adding(m, n, gain), Append(st, x), ts, n + 1)
  BY <1>1, <1>2, <1>3, StoreExplains
<1>5. Extends(Adding(m, n, gain), m, n, gain)
  BY <1>1, <1>4, AddedExplanation DEF Extends
<1>6. AllReadBut(P \cup {n}, ts, n + 1)
  BY <1>1, StoredIsUnread
<1>7. Underway(Adding(m, n, gain), Append(st, x), ts, n + 1, P \cup {n})
  BY <1>1, <1>4, <1>6 DEF Underway
<1> QED
  BY <1>2, <1>5, <1>7 DEF x, gain

\* One more record, which passes.
LEMMA RecordUnderway ==
  ASSUME NEW m, NEW st, NEW ts, NEW n, NEW P, NEW Q, Underway(m, st, ts, n, P),
         NEW r \in Transform, r.out = n, r.id # "field_lz",
         \A k \in DOMAIN r.ins : r.ins[k] \in 0..(n - 1),
         Passes(m, r), Result(m, r) \in Known,
         n \in Q, \A s \in P : s \in Q \/ \E k \in DOMAIN r.ins : r.ins[k] = s
  PROVE  /\ Underway(Adding(m, n, Result(m, r)), st, Append(ts, r), n + 1, Q)
         /\ Extends(Adding(m, n, Result(m, r)), m, n, Result(m, r))
<1> DEFINE gain == Result(m, r)
<1>1. n \in Nat /\ m \in Explanations(n) /\ Sound(m, st, ts, n) /\ AllReadBut(P, ts, n)
      /\ NoFieldLz(ts) /\ ts \in Seq(Transform)
  BY DEF Underway, Sound, Dense
<1>2. Sound(Adding(m, n, gain), st, Append(ts, r), n + 1)
  BY <1>1, RecordExplains
<1>3. gain \in Known
  OBVIOUS
<1> HIDE DEF gain
<1>4. Extends(Adding(m, n, gain), m, n, gain)
  BY <1>1, <1>3, AddedExplanation DEF Extends
<1>5. AllReadBut(Q, Append(ts, r), n + 1)
  BY <1>1, OutputIsUnread
<1>6. NoFieldLz(Append(ts, r))
  BY <1>1, StillNoFieldLz
<1>7. Underway(Adding(m, n, gain), st, Append(ts, r), n + 1, Q)
  BY <1>2, <1>5, <1>6 DEF Underway
<1> QED
  BY <1>4, <1>7 DEF gain

\* A raw route leaves the stream it was given, compressed or not.
LEMMA RawRouteExplains ==
  ASSUME NEW m, NEW st, NEW ts, NEW n, NEW P, Underway(m, st, ts, n, P),
         NEW means \in Meanings, means # Garbage,
         NEW bytes \in 0..MaxChunkBytes, NEW width \in {1, 2, 4}, bytes % width = 0,
         MaxChunkBytes \in Nat
  PROVE  \E v : RouteExplains(v, m, st, ts, n, P, RawRoute(means, bytes, width, n),
                              means, bytes, width, 2, 1)
<1> DEFINE route == RawRoute(means, bytes, width, n)
<1>1. n \in Nat /\ st \in Seq(Stored) /\ ts \in Seq(Transform) /\ Len(ts) \in Nat
  BY DEF Underway, Sound, Dense
<1>2. bytes \in Nat
  OBVIOUS
<1>3. \A z \in BOOLEAN :
        /\ StoredStream(n, means, bytes, z) \in Stored
        /\ Underway(Adding(m, n, AsStored(means, bytes, z)),
                    Append(st, StoredStream(n, means, bytes, z)), ts, n + 1, P \cup {n})
        /\ Extends(Adding(m, n, AsStored(means, bytes, z)), m, n, AsStored(means, bytes, z))
  BY <1>2, StoreUnderway
<1>4. CASE bytes >= MinZstd
  <2> DEFINE x == StoredStream(n, means, bytes, TRUE)
             r == Record("zstd", <<n>>, n + 1, width)
             first == AsStored(means, bytes, TRUE)
             v == Adding(m, n, first)
             u == Adding(v, n + 1, Result(v, r))
  <2>1. /\ route.stored = <<x>> /\ route.transforms = <<r>>
        /\ route.output = n + 1 /\ route.next = (n + 1) + 1
    BY <1>4 DEF RawRoute
  <2>2. /\ x \in Stored /\ Underway(v, Append(st, x), ts, n + 1, P \cup {n})
        /\ v[n] = first /\ \A s \in 0..(n - 1) : v[s] = m[s]
    <3>1. TRUE \in BOOLEAN
      OBVIOUS
    <3> QED
      BY <1>3, <3>1, Zenon DEF Extends
  <2>3. v[n] = AsStored(means, bytes, TRUE)
    BY <2>2
  <2>4. r \in Transform /\ r.ins = <<n>> /\ r.out = n + 1 /\ r.id = "zstd"
        /\ DOMAIN r.ins = {1} /\ r.ins[1] = n
    <3>1. <<n>> \in Seq(Nat) /\ n + 1 \in Nat
      BY <1>1
    <3> QED
      BY <3>1 DEF Record, Transform, TransformShape
  <2> HIDE DEF route, x, v, first
  <2>5. /\ Passes(v, r) /\ Result(v, r) \in Known
        /\ Result(v, r) = [payload |-> Rebuilt(means, bytes), width |-> width]
    <3>1. IsRecord(r, "zstd", <<n>>, n + 1, width)
      BY DEF IsRecord
    <3> HIDE DEF r
    <3>2. SaysStored(v, n, means, bytes, TRUE)
      BY <2>2 DEF first, SaysStored
    <3>3. /\ means \in Meanings /\ means # Garbage /\ bytes \in 0..MaxChunkBytes
          /\ width \in {1, 2, 4} /\ bytes % width = 0 /\ MaxChunkBytes \in Nat
      OBVIOUS
    <3>4. Makes(v, r, means, bytes, width)
      BY <3>1, <3>2, <3>3, ZstdPasses
    <3> QED
      BY <3>4 DEF Makes
  <2> HIDE DEF r
  <2>6. /\ Underway(u, Append(st, x), Append(ts, r), (n + 1) + 1, P \cup {n + 1})
        /\ u[n + 1] = Result(v, r)
        /\ \A s \in 0..((n + 1) - 1) : u[s] = v[s]
    <3> DEFINE Q == P \cup {n + 1}
               R == P \cup {n}
               k1 == n + 1
    <3>1. \A k \in DOMAIN r.ins : r.ins[k] \in 0..(k1 - 1)
      BY <1>1, <2>4
    <3>2. k1 \in Q /\ r.id # "field_lz" /\ r.out = k1
      BY <2>4
    <3>3. \A s \in R : s \in Q \/ \E k \in DOMAIN r.ins : r.ins[k] = s
      BY <2>4
    <3>4. Underway(v, Append(st, x), ts, k1, R)
      BY <2>2
    <3> HIDE DEF Q, R, k1
    <3>5. /\ Underway(Adding(v, k1, Result(v, r)), Append(st, x), Append(ts, r), k1 + 1, Q)
          /\ Extends(Adding(v, k1, Result(v, r)), v, k1, Result(v, r))
      BY <2>4, <2>5, <3>1, <3>2, <3>3, <3>4, RecordUnderway
    <3> QED
      BY <3>5, Zenon DEF Q, k1, Extends
  <2> HIDE DEF u
  <2>7. /\ st \o <<x>> = Append(st, x) /\ ts \o <<r>> = Append(ts, r)
        /\ Len(Append(ts, r)) = Len(ts) + 1
    BY <1>1, <2>2, <2>4, ConcatIsAppend
  <2>8. \A s \in 0..(n - 1) : u[s] = m[s]
    <3>1. \A s \in 0..(n - 1) : s \in 0..((n + 1) - 1)
      BY <1>1
    <3> QED
      BY <2>2, <2>6, <3>1
  <2>9. Holds(u, n + 1, means, bytes, width)
    BY <2>5, <2>6 DEF Holds
  <2>10. (n + 1) + 1 <= n + 2 /\ Len(Append(ts, r)) <= Len(ts) + 1
    BY <1>1, <2>7
  <2>11. RouteExplains(u, m, st, ts, n, P, route, means, bytes, width, 2, 1)
    BY <2>1, <2>6, <2>7, <2>8, <2>9, <2>10, Zenon DEF RouteExplains
  <2> QED
    BY <2>11 DEF route
<1>5. CASE ~ (bytes >= MinZstd)
  <2> DEFINE x == StoredStream(n, means, bytes, FALSE)
             first == AsStored(means, bytes, FALSE)
             v == Adding(m, n, first)
  <2>1. /\ route.stored = <<x>> /\ route.transforms = <<>>
        /\ route.output = n /\ route.next = n + 1
    <3>1. (bytes >= MinZstd) = FALSE
      BY <1>5
    <3> QED
      BY <3>1, Zenon DEF RawRoute
  <2>2. /\ x \in Stored /\ Underway(v, Append(st, x), ts, n + 1, P \cup {n})
        /\ v[n] = first /\ \A s \in 0..(n - 1) : v[s] = m[s]
    <3>1. FALSE \in BOOLEAN
      OBVIOUS
    <3> QED
      BY <1>3, <3>1, Zenon DEF Extends
  <2>3. Holds(v, n, means, bytes, width)
    <3> HIDE DEF v
    <3> QED
      BY <2>2 DEF Holds, Rebuilt, AsStored
  <2> HIDE DEF route, x, v
  <2>4. st \o <<x>> = Append(st, x) /\ ts \o <<>> = ts
    BY <1>1, <2>2, ConcatIsAppend
  <2>5. n + 1 <= n + 2 /\ Len(ts) <= Len(ts) + 1
    BY <1>1
  <2>6. RouteExplains(v, m, st, ts, n, P, route, means, bytes, width, 2, 1)
    BY <2>1, <2>2, <2>3, <2>4, <2>5, Zenon DEF RouteExplains
  <2> QED
    BY <2>6 DEF route
<1> QED
  BY <1>4, <1>5

\* The dictionary route is a table, a raw route for the codes, and the record that
\* makes the literals of both.
LEMMA DictionaryRouteExplains ==
  ASSUME PlanInv, NEW m, NEW st, NEW ts, NEW n, NEW P, Underway(m, st, ts, n, P),
         NEW distinct \in Nat, NEW width \in {1, 2}
  PROVE  \E v : RouteExplains(v, m, st, ts, n, P, DictionaryRoute(distinct, width, n),
                              Side(1), entries[1] * 4, 4, 4, 2)
<1> DEFINE route == DictionaryRoute(distinct, width, n)
           bytes == width * entries[1]
           raw == RawRoute(Codes, bytes, width, n + 1)
           c == raw.output
           x == StoredStream(n, Table, U32Width * distinct, FALSE)
           table == AsStored(Table, U32Width * distinct, FALSE)
           t == Adding(m, n, table)
           tsc == ts \o raw.transforms
           d == Record("literal_dict_u32", <<n, c>>, c + 1, width)
<1>1. n \in Nat /\ st \in Seq(Stored) /\ ts \in Seq(Transform) /\ Len(ts) \in Nat
  BY DEF Underway, Sound, Dense
<1>2. /\ bytes \in 0..MaxChunkBytes /\ bytes % width = 0 /\ MaxChunkBytes \in Nat
      /\ width \in {1, 2, 4}
  <2>1. /\ entries[1] \in 0..chunkLen /\ chunkLen \in Nat /\ MaxChunkBytes \in Nat
        /\ 4 * chunkLen <= MaxChunkBytes
    BY SizesBounded DEF U32Width
  <2>2. PICK e \in Nat : e = entries[1] /\ e <= chunkLen
    BY <2>1
  <2>3. CASE width = 1
    BY <2>1, <2>2, <2>3
  <2>4. CASE width = 2
    BY <2>1, <2>2, <2>4
  <2> QED
    BY <2>3, <2>4
<1>3. /\ raw.stored = <<StoredStream(n + 1, Codes, bytes, bytes >= MinZstd)>>
      /\ raw.next = c + 1
      /\ \/ c = n + 1 /\ raw.transforms = <<>>
         \/ c = n + 2 /\ raw.transforms = <<Record("zstd", <<n + 1>>, n + 2, width)>>
  <2>1. (bytes >= MinZstd) \in BOOLEAN /\ (n + 1) + 1 = n + 2
    BY <1>1
  <2>2. CASE bytes >= MinZstd
    <3>1. (bytes >= MinZstd) = TRUE
      BY <2>1, <2>2
    <3> HIDE DEF bytes
    <3> QED
      BY <2>1, <3>1 DEF RawRoute
  <2>3. CASE ~ (bytes >= MinZstd)
    <3>1. (bytes >= MinZstd) = FALSE
      BY <2>1, <2>3
    <3> HIDE DEF bytes
    <3> QED
      BY <2>1, <3>1 DEF RawRoute
  <2> QED
    BY <2>2, <2>3
<1>4. /\ route.stored = <<x, StoredStream(n + 1, Codes, bytes, bytes >= MinZstd)>>
      /\ route.transforms = raw.transforms \o <<d>>
      /\ route.output = c + 1 /\ route.next = c + 2
  <2>1. (bytes >= MinZstd) \in BOOLEAN /\ (n + 1) + 1 = n + 2
    BY <1>1
  <2>2. CASE bytes >= MinZstd
    <3>1. (bytes >= MinZstd) = TRUE
      BY <2>1, <2>2
    <3> HIDE DEF bytes
    <3> QED
      BY <2>1, <3>1 DEF DictionaryRoute, RawRoute, bytes
  <2>3. CASE ~ (bytes >= MinZstd)
    <3>1. (bytes >= MinZstd) = FALSE
      BY <2>1, <2>3
    <3> HIDE DEF bytes
    <3> QED
      BY <2>1, <3>1 DEF DictionaryRoute, RawRoute, bytes
  <2> QED
    BY <2>2, <2>3
<1>5. /\ x \in Stored
      /\ Underway(t, Append(st, x), ts, n + 1, P \cup {n})
      /\ Extends(t, m, n, table)
  <2>1. Table \in Meanings /\ Table # Garbage /\ U32Width * distinct \in Nat /\ FALSE \in BOOLEAN
    BY MeaningsDiffer DEF U32Width
  <2> QED
    BY <2>1, StoreUnderway
<1> HIDE DEF route, raw, x, t, table, bytes, d
<1>6. PICK v : RouteExplains(v, t, Append(st, x), ts, n + 1, P \cup {n}, raw,
                            Codes, bytes, width, 2, 1)
  <2>1. Codes \in Meanings /\ Codes # Garbage
    BY MeaningsDiffer
  <2> QED
    BY <1>2, <1>5, <2>1, RawRouteExplains DEF raw
<1>7. c \in Nat /\ n < c /\ c <= n + 2
  BY <1>1, <1>3
<1>8. /\ d \in Transform /\ d.ins = <<n, c>> /\ d.out = c + 1 /\ d.id = "literal_dict_u32"
      /\ DOMAIN d.ins = {1, 2} /\ d.ins[1] = n /\ d.ins[2] = c
  <2>1. <<n, c>> \in Seq(Nat) /\ c + 1 \in Nat
    BY <1>1, <1>7
  <2> QED
    BY <2>1 DEF d, Record, Transform, TransformShape
<1>9. Makes(v, d, Side(1), entries[1] * 4, 4)
  <2>1. v[n] = table
    <3>1. n \in 0..((n + 1) - 1)
      BY <1>1
    <3> QED
      BY <1>5, <1>6, <3>1 DEF RouteExplains, Extends
  <2>2. Holds(v, c, Codes, bytes, width)
    BY <1>6 DEF RouteExplains
  <2> QED
    BY <2>1, <2>2, DictionaryPasses DEF d, bytes, table
<1> DEFINE R == (P \cup {n}) \cup {c}
           Q == P \cup {c + 1}
           stc == Append(st, x) \o raw.stored
           u == Adding(v, c + 1, Result(v, d))
<1>10. Underway(v, stc, tsc, c + 1, R)
  BY <1>3, <1>6 DEF RouteExplains
<1>11. /\ Underway(u, stc, Append(tsc, d), (c + 1) + 1, Q)
       /\ Extends(u, v, c + 1, Result(v, d))
  <2>1. \A k \in DOMAIN d.ins : d.ins[k] \in 0..((c + 1) - 1)
    BY <1>1, <1>7, <1>8
  <2>2. \A s \in R : s \in Q \/ \E k \in DOMAIN d.ins : d.ins[k] = s
    BY <1>8
  <2>3. c + 1 \in Q /\ d.id # "field_lz"
    BY <1>8
  <2>4. Passes(v, d) /\ Result(v, d) \in Known
    BY <1>9 DEF Makes
  <2> HIDE DEF Q, R, stc, tsc, c
  <2> QED
    BY <1>8, <1>10, <2>1, <2>2, <2>3, <2>4, RecordUnderway
<1>12. st \o route.stored = stc
  BY <1>1, <1>3, <1>4, <1>5, SMTT(30)
<1>13. ts \o route.transforms = Append(tsc, d) /\ Len(Append(tsc, d)) <= Len(ts) + 2
  <2> DEFINE r == Record("zstd", <<n + 1>>, n + 2, width)
  <2>1. r \in Transform
    <3>1. <<n + 1>> \in Seq(Nat) /\ n + 2 \in Nat
      BY <1>1
    <3> QED
      BY <3>1 DEF Record, Transform, TransformShape
  <2>2. /\ route.transforms = raw.transforms \o <<d>>
        /\ raw.transforms = <<>> \/ raw.transforms = <<r>>
    BY <1>3, <1>4
  <2> HIDE DEF r, Transform
  <2>3. /\ ts \o <<>> = ts /\ ts \o <<d>> = Append(ts, d) /\ <<>> \o <<d>> = <<d>>
        /\ ts \o <<r>> = Append(ts, r) /\ <<r>> \o <<d>> = <<r, d>>
        /\ ts \o <<r, d>> = Append(Append(ts, r), d)
    BY <1>1, <1>8, <2>1, ConcatIsAppend
  <2>4. ts \o route.transforms = Append(tsc, d)
    BY <2>2, <2>3
  <2>5. /\ Len(Append(ts, d)) = Len(ts) + 1
        /\ Len(Append(Append(ts, r), d)) = (Len(ts) + 1) + 1
    BY <1>1, <1>8, <2>1, Appended
  <2>6. Len(Append(tsc, d)) = Len(ts) + 1 \/ Len(Append(tsc, d)) = (Len(ts) + 1) + 1
    BY <2>2, <2>3, <2>5
  <2> QED
    BY <1>1, <2>4, <2>6
<1>14. \A s \in 0..(n - 1) : u[s] = m[s]
  <2>1. \A s \in 0..(n - 1) : s \in 0..((n + 1) - 1) /\ s \in 0..((c + 1) - 1)
    BY <1>1, <1>7
  <2> QED
    BY <1>5, <1>6, <1>11, <2>1 DEF Extends, RouteExplains
<1>15. Holds(u, c + 1, Side(1), entries[1] * 4, 4)
  BY <1>9, <1>11 DEF Makes, Extends, Holds
<1>16. RouteExplains(u, m, st, ts, n, P, route, Side(1), entries[1] * 4, 4, 4, 2)
  <2>1. route.next = (c + 1) + 1 /\ route.next <= n + 4
    BY <1>1, <1>4, <1>7
  <2> HIDE DEF u, stc, tsc
  <2> QED
    BY <1>4, <1>11, <1>12, <1>13, <1>14, <1>15, <2>1, Zenon DEF RouteExplains, Q
<1> QED
  BY <1>16 DEF route

-----------------------------------------------------------------------------
\* What the planner's steps do to an explanation

\* The checks and results of the codecs depend on nothing the planner changes.
LEMMA ChecksStay ==
  ASSUME UNCHANGED planned
  PROVE  \A m, r : /\ Passes(m, r)' <=> Passes(m, r)
                   /\ Result(m, r)' = Result(m, r)
<1>1. chunkLen' = chunkLen /\ entries' = entries /\ delta' = delta
  BY DEF planned
<1>2. \A rec, xs : CodecAccepts(rec, xs)' <=> CodecAccepts(rec, xs)
  BY <1>1 DEF CodecAccepts
<1>3. \A rec, xs : Restored(rec, xs)' = Restored(rec, xs)
  BY <1>1 DEF Restored
<1> QED
  BY <1>2, <1>3 DEF Passes, Result, Taken

\* An explanation of the lists after a step is one of the next state.
LEMMA SoundNext ==
  ASSUME UNCHANGED planned, NEW v, Sound(v, stored', transforms', nextId')
  PROVE  Sound(v, stored, transforms, nextId)'
  BY ChecksStay DEF Sound

\* Nothing is handed out yet, and there is nothing to explain.
LEMMA InitExplained ==
  ASSUME PlanInit
  PROVE  \E v : PlanMeans(v)
<1> DEFINE v == [s \in 0..(0 - 1) |-> 0]
<1>1. v \in Explanations(0)
  <2>1. 0..(0 - 1) = {}
    OBVIOUS
  <2> QED
    BY <2>1 DEF Explanations
<1> HIDE DEF v
<1>2. Dense(<<>>, <<>>, 0)
  BY PlanInvInit DEF PlanInit, PlanInv
<1>3. Sound(v, <<>>, <<>>, 0) /\ NoFieldLz(<<>>)
  BY <1>1, <1>2 DEF Sound, FilledOnce, NoFieldLz
<1>4. PlanMeans(v)
  BY <1>3 DEF PlanMeans, PlanInit
<1> QED
  BY <1>4

\* What has been planned before FieldLZ, in terms of P, the ids still unread.
LEMMA MeansUnderway ==
  ASSUME PlanInv, NEW m, PlanMeans(m), phase # "planned"
  PROVE  /\ Sound(m, stored, transforms, nextId) /\ NoFieldLz(transforms)
         /\ phase = "literals" => Underway(m, stored, transforms, nextId, {})
         /\ phase = "lanes" => Underway(m, stored, transforms, nextId, Elements(lanes))
         /\ phase = "streams" => Underway(m, stored, transforms, nextId, Elements(inputs))
<1>1. Sound(m, stored, transforms, nextId) /\ NoFieldLz(transforms)
  BY DEF PlanMeans
<1>2. phase = "literals" => AllReadBut({}, transforms, nextId)
  BY DEF PlanMeans, AllReadBut
<1>3. /\ phase = "lanes" => AllReadBut(Elements(lanes), transforms, nextId)
      /\ phase = "streams" => AllReadBut(Elements(inputs), transforms, nextId)
  BY DEF PlanMeans
<1> QED
  BY <1>1, <1>2, <1>3 DEF Underway

\* The elements of a list with one more.
LEMMA ElementsAppended ==
  ASSUME NEW S, NEW s \in Seq(S), NEW x \in S
  PROVE  Elements(Append(s, x)) = Elements(s) \cup {x}
<1>1. /\ DOMAIN s = 1..Len(s) /\ DOMAIN Append(s, x) = 1..(Len(s) + 1) /\ Len(s) \in Nat
      /\ \A k \in 1..Len(s) : Append(s, x)[k] = s[k]
      /\ Append(s, x)[Len(s) + 1] = x
  BY Appended
<1>2. \A k \in DOMAIN Append(s, x) : k \in DOMAIN s \/ k = Len(s) + 1
  BY <1>1
<1>3. \A k \in DOMAIN s : k \in DOMAIN Append(s, x)
  BY <1>1
<1>4. Len(s) + 1 \in DOMAIN Append(s, x)
  BY <1>1
<1> QED
  BY <1>1, <1>2, <1>3, <1>4 DEF Elements

\* The lane just appended.
LEMMA LaneExplained ==
  ASSUME PlanInv, NEW m, PlanMeans(m), AppendLane
  PROVE  \E v : PlanMeans(v)'
<1> DEFINE l == Len(lanes) + 1
           route == RawRoute(Lane(l), entries[1], 1, nextId)
           o == route.output
<1>1. /\ phase = "lanes" /\ Len(lanes) < SplitLanes
      /\ AppendRoute(route) /\ lanes' = Append(lanes, o)
      /\ phase' = phase /\ UNCHANGED planned /\ entries' = entries
  BY DEF AppendLane, planned
<1>2. /\ nextId \in Nat /\ Len(lanes) \in Nat /\ lanes \in Seq(0..(nextId - 1)) /\ SplitLanes = 4
      /\ stored \in Seq(Stored) /\ transforms \in Seq(Transform) /\ Len(transforms) \in Nat
  BY IdLists DEF PlanInv, Dense
<1>3. PICK v : RouteExplains(v, m, stored, transforms, nextId, Elements(lanes), route,
                            Lane(l), entries[1], 1, 2, 1)
  <2>1. l \in 1..SplitLanes
    BY <1>1, <1>2
  <2>2. Lane(l) \in Meanings /\ Lane(l) # Garbage
    BY <2>1, MeaningsDiffer
  <2>3. entries[1] \in 0..MaxChunkBytes /\ entries[1] % 1 = 0 /\ MaxChunkBytes \in Nat
        /\ 1 \in {1, 2, 4}
    BY SizesBounded DEF U32Width
  <2>4. Underway(m, stored, transforms, nextId, Elements(lanes))
    BY <1>1, MeansUnderway
  <2> HIDE DEF l
  <2> QED
    BY <2>2, <2>3, <2>4, RawRouteExplains
<1>4. /\ stored' = stored \o route.stored /\ transforms' = transforms \o route.transforms
      /\ nextId' = route.next
  BY <1>1 DEF AppendRoute
<1> HIDE DEF route
<1>5. /\ Underway(v, stored', transforms', nextId', Elements(lanes) \cup {o})
      /\ \A s \in 0..(nextId - 1) : v[s] = m[s]
      /\ Holds(v, o, Lane(l), entries[1], 1)
      /\ nextId' <= nextId + 2 /\ Len(transforms') <= Len(transforms) + 1
  BY <1>3, <1>4 DEF RouteExplains
<1> HIDE DEF o
<1>6. lanes \in Seq({lanes[k] : k \in DOMAIN lanes} \cup {o})
  BY <1>2
<1>7. /\ Elements(lanes') = Elements(lanes) \cup {o}
      /\ DOMAIN lanes = 1..Len(lanes) /\ DOMAIN lanes' = 1..l /\ Len(lanes') = l
      /\ \A k \in 1..Len(lanes) : lanes'[k] = lanes[k]
      /\ lanes'[l] = o
  BY <1>1, <1>6, ElementsAppended, Appended
<1>8. \A k \in DOMAIN lanes' : Holds(v, lanes'[k], Lane(k), entries[1], 1)
  <2>1. \A k \in DOMAIN lanes : Holds(v, lanes[k], Lane(k), entries[1], 1)
    <3>1. \A k \in DOMAIN lanes : lanes[k] \in 0..(nextId - 1)
      BY <1>2
    <3>2. \A k \in DOMAIN lanes : Holds(m, lanes[k], Lane(k), entries[1], 1)
      BY <1>1 DEF PlanMeans
    <3> QED
      BY <1>5, <3>1, <3>2 DEF Holds
  <2>2. \A k \in DOMAIN lanes' : k \in DOMAIN lanes \/ k = l
    BY <1>2, <1>7
  <2> HIDE DEF l
  <2> QED
    BY <1>5, <1>7, <2>1, <2>2
<1>9. nextId' <= 2 * Len(lanes') /\ Len(transforms') <= Len(lanes')
  <2>1. nextId <= 2 * Len(lanes) /\ Len(transforms) <= Len(lanes)
    BY <1>1 DEF PlanMeans
  <2>2. nextId' \in Nat /\ Len(transforms') \in Nat
    BY <1>5 DEF Underway, Sound, Dense
  <2> QED
    BY <1>2, <1>5, <1>7, <2>1, <2>2
<1>10. Sound(v, stored, transforms, nextId)'
  <2>1. Sound(v, stored', transforms', nextId')
    BY <1>5 DEF Underway
  <2> QED
    BY <1>1, <2>1, SoundNext
<1>11. PlanMeans(v)'
  BY <1>1, <1>5, <1>7, <1>8, <1>9, <1>10 DEF PlanMeans, Underway
<1> QED
  BY <1>11

\* The side stream just appended, behind those there are.
LEMMA SideStreamExplained ==
  ASSUME PlanInv, NEW m, NEW k \in 1..5, k = Len(inputs) + 1, AppendSideStream(k),
         Underway(m, stored, transforms, nextId, Elements(inputs)),
         \A i \in DOMAIN inputs :
           Holds(m, inputs[i], Side(i), entries[i] * FieldLzWidths[i], FieldLzWidths[i]),
         nextId <= 7 + 2 * Len(inputs), Len(transforms) <= 4 + Len(inputs),
         phase' = "streams", UNCHANGED planned
  PROVE  \E v : PlanMeans(v)'
<1> DEFINE w == FieldLzWidths[k]
           bytes == entries[k] * w
           route == RawRoute(Side(k), bytes, w, nextId)
           o == route.output
<1>1. AppendRoute(route) /\ inputs' = Append(inputs, o) /\ entries' = entries
  BY DEF AppendSideStream, planned
<1>2. /\ nextId \in Nat /\ Len(inputs) \in Nat /\ inputs \in Seq(0..(nextId - 1))
      /\ stored \in Seq(Stored) /\ transforms \in Seq(Transform) /\ Len(transforms) \in Nat
  BY IdLists DEF PlanInv, Dense
<1>3. PICK v : RouteExplains(v, m, stored, transforms, nextId, Elements(inputs), route,
                            Side(k), bytes, w, 2, 1)
  <2>1. Side(k) \in Meanings /\ Side(k) # Garbage
    BY SizesBounded, MeaningsDiffer
  <2>2. w \in {1, 2, 4} /\ bytes \in 0..MaxChunkBytes /\ bytes % w = 0 /\ MaxChunkBytes \in Nat
    <3>1. /\ entries[k] \in 0..chunkLen /\ chunkLen \in Nat /\ MaxChunkBytes \in Nat
          /\ 4 * chunkLen <= MaxChunkBytes /\ w \in {2, 4}
      BY SizesBounded, SMTT(30) DEF U32Width
    <3>2. PICK e \in Nat : e = entries[k] /\ e <= chunkLen
      BY <3>1
    <3>3. CASE w = 2
      BY <3>1, <3>2, <3>3
    <3>4. CASE w = 4
      BY <3>1, <3>2, <3>4
    <3> QED
      BY <3>1, <3>3, <3>4
  <2> HIDE DEF bytes, w
  <2> QED
    BY <2>1, <2>2, RawRouteExplains
<1>4. /\ stored' = stored \o route.stored /\ transforms' = transforms \o route.transforms
      /\ nextId' = route.next
  BY <1>1 DEF AppendRoute
<1> HIDE DEF route
<1>5. /\ Underway(v, stored', transforms', nextId', Elements(inputs) \cup {o})
      /\ \A s \in 0..(nextId - 1) : v[s] = m[s]
      /\ Holds(v, o, Side(k), bytes, w)
      /\ nextId' <= nextId + 2 /\ Len(transforms') <= Len(transforms) + 1
  BY <1>3, <1>4 DEF RouteExplains
<1> HIDE DEF o
<1>6. inputs \in Seq({inputs[i] : i \in DOMAIN inputs} \cup {o})
  BY <1>2
<1>7. /\ Elements(inputs') = Elements(inputs) \cup {o}
      /\ DOMAIN inputs = 1..Len(inputs) /\ DOMAIN inputs' = 1..k /\ Len(inputs') = k
      /\ \A i \in 1..Len(inputs) : inputs'[i] = inputs[i]
      /\ inputs'[k] = o
  BY <1>1, <1>6, ElementsAppended, Appended
<1>8. \A i \in DOMAIN inputs' :
        Holds(v, inputs'[i], Side(i), entries[i] * FieldLzWidths[i], FieldLzWidths[i])
  <2>1. \A i \in DOMAIN inputs :
          Holds(v, inputs[i], Side(i), entries[i] * FieldLzWidths[i], FieldLzWidths[i])
    <3>1. \A i \in DOMAIN inputs : inputs[i] \in 0..(nextId - 1)
      BY <1>2
    <3> QED
      BY <1>5, <3>1 DEF Holds
  <2>2. \A i \in DOMAIN inputs' : i \in DOMAIN inputs \/ i = k
    BY <1>2, <1>7
  <2> QED
    BY <1>5, <1>7, <2>1, <2>2
<1>9. nextId' <= 7 + 2 * Len(inputs') /\ Len(transforms') <= 4 + Len(inputs')
  <2>1. nextId' \in Nat /\ Len(transforms') \in Nat
    BY <1>5 DEF Underway, Sound, Dense
  <2> QED
    BY <1>2, <1>5, <1>7, <2>1
<1>10. Sound(v, stored, transforms, nextId)'
  <2>1. Sound(v, stored', transforms', nextId')
    BY <1>5 DEF Underway
  <2> QED
    BY <2>1, SoundNext
<1>11. PlanMeans(v)'
  BY <1>1, <1>5, <1>7, <1>8, <1>9, <1>10 DEF PlanMeans, Underway
<1> QED
  BY <1>11

\* The literals restored through a dictionary, the first input of FieldLZ.
LEMMA DictionaryExplained ==
  ASSUME PlanInv, NEW m, PlanMeans(m), PlanDictionary
  PROVE  \E v : PlanMeans(v)'
<1>1. PICK distinct \in 1..(entries[1] - 1), width \in {1, 2} :
        /\ AppendRoute(DictionaryRoute(distinct, width, nextId))
        /\ inputs' = <<DictionaryRoute(distinct, width, nextId).output>>
  BY DEF PlanDictionary
<1> DEFINE route == DictionaryRoute(distinct, width, nextId)
           o == route.output
<1>2. /\ phase = "literals" /\ phase' = "streams" /\ UNCHANGED planned
      /\ nextId = 0 /\ transforms = <<>> /\ entries' = entries
  BY DEF PlanDictionary, PlanMeans, planned
<1>3. PICK v : RouteExplains(v, m, stored, transforms, nextId, {}, route,
                            Side(1), entries[1] * 4, 4, 4, 2)
  <2>1. distinct \in Nat
    BY SizeFacts
  <2>2. Underway(m, stored, transforms, nextId, {})
    BY <1>2, MeansUnderway
  <2> QED
    BY <2>1, <2>2, DictionaryRouteExplains
<1>4. /\ stored' = stored \o route.stored /\ transforms' = transforms \o route.transforms
      /\ nextId' = route.next /\ inputs' = <<o>>
  BY <1>1 DEF AppendRoute
<1> HIDE DEF route
<1>5. /\ Underway(v, stored', transforms', nextId', {} \cup {o})
      /\ Holds(v, o, Side(1), entries[1] * 4, 4)
      /\ nextId' <= nextId + 4 /\ Len(transforms') <= Len(transforms) + 2
  BY <1>3, <1>4 DEF RouteExplains
<1> HIDE DEF o
<1>6. Elements(inputs') = {} \cup {o} /\ DOMAIN inputs' = {1} /\ inputs'[1] = o /\ Len(inputs') = 1
  BY <1>4 DEF Elements
<1>7. nextId' <= 7 + 2 * Len(inputs') /\ Len(transforms') <= 4 + Len(inputs')
  <2>1. nextId' \in Nat /\ Len(transforms') \in Nat
    BY <1>5 DEF Underway, Sound, Dense
  <2>2. Len(transforms) = 0
    BY <1>2
  <2> QED
    BY <1>2, <1>5, <1>6, <2>1, <2>2
<1>8. Sound(v, stored, transforms, nextId)'
  <2>1. Sound(v, stored', transforms', nextId')
    BY <1>5 DEF Underway
  <2> QED
    BY <1>2, <2>1, SoundNext
<1>9. FieldLzWidths[1] = 4
  BY SizesBounded
<1>10. PlanMeans(v)'
  BY <1>2, <1>5, <1>6, <1>7, <1>8, <1>9 DEF PlanMeans, Underway
<1> QED
  BY <1>10

\* The literals restored from their four lanes, the first input of FieldLZ.
LEMMA LanesExplained ==
  ASSUME PlanInv, NEW m, PlanMeans(m), CloseLanes
  PROVE  \E v : PlanMeans(v)'
<1> DEFINE r == Record("transpose_split4", lanes, nextId, 0)
           P == Elements(lanes)
           Q == {nextId}
<1>1. /\ phase = "lanes" /\ Len(lanes) = SplitLanes
      /\ transforms' = Append(transforms, r) /\ inputs' = <<nextId>> /\ nextId' = nextId + 1
      /\ phase' = "streams" /\ UNCHANGED planned /\ stored' = stored /\ entries' = entries
  BY DEF CloseLanes, planned
<1>2. /\ nextId \in Nat /\ Len(lanes) = 4 /\ lanes \in Seq(0..(nextId - 1)) /\ lanes \in Seq(Nat)
      /\ transforms \in Seq(Transform) /\ Len(transforms) \in Nat
  <2>1. \A e \in 0..(nextId - 1) : e \in Nat
    BY IdLists
  <2> QED
    BY <1>1, <2>1, IdLists DEF PlanInv, Dense
<1>3. r \in Transform /\ r.ins = lanes /\ r.out = nextId /\ r.id # "field_lz"
  BY <1>2 DEF Record, Transform, TransformShape
<1>4. Makes(m, r, Side(1), entries[1] * 4, 4)
  <2>1. \A k \in DOMAIN lanes : Holds(m, lanes[k], Lane(k), entries[1], 1)
    BY <1>1 DEF PlanMeans
  <2> QED
    BY <1>1, <1>2, <2>1, SplitPasses
<1> HIDE DEF r
<1>5. PICK v : /\ Underway(v, stored, Append(transforms, r), nextId + 1, Q)
               /\ Extends(v, m, nextId, Result(m, r))
  <2>1. Underway(m, stored, transforms, nextId, P)
    BY <1>1, MeansUnderway
  <2>2. \A k \in DOMAIN r.ins : r.ins[k] \in 0..(nextId - 1)
    <3>1. \A k \in DOMAIN lanes : lanes[k] \in 0..(nextId - 1)
      BY IdLists
    <3> QED
      BY <1>3, <3>1
  <2>3. \A s \in P : s \in Q \/ \E k \in DOMAIN r.ins : r.ins[k] = s
    BY <1>3 DEF Elements
  <2>4. nextId \in Q
    OBVIOUS
  <2>5. Passes(m, r) /\ Result(m, r) \in Known
    BY <1>4 DEF Makes
  <2> HIDE DEF P, Q
  <2> QED
    BY <1>3, <2>1, <2>2, <2>3, <2>4, <2>5, RecordUnderway
<1>6. Holds(v, nextId, Side(1), entries[1] * 4, 4)
  BY <1>4, <1>5 DEF Makes, Extends, Holds
<1>7. Elements(inputs') = {nextId} /\ DOMAIN inputs' = {1} /\ inputs'[1] = nextId /\ Len(inputs') = 1
  BY <1>1 DEF Elements
<1>8. nextId' <= 7 + 2 * Len(inputs') /\ Len(transforms') <= 4 + Len(inputs')
  <2>1. nextId <= 2 * Len(lanes) /\ Len(transforms) <= Len(lanes)
    BY <1>1 DEF PlanMeans
  <2>2. Len(transforms') = Len(transforms) + 1
    BY <1>1, <1>2, <1>3, Appended
  <2> QED
    BY <1>1, <1>2, <1>7, <2>1, <2>2
<1>9. Underway(v, stored', transforms', nextId', Elements(inputs'))
  BY <1>1, <1>5, <1>7
<1>10. Sound(v, stored, transforms, nextId)'
  <2>1. Sound(v, stored', transforms', nextId')
    BY <1>9 DEF Underway
  <2> QED
    BY <1>1, <2>1, SoundNext
<1>11. FieldLzWidths[1] = 4
  BY SizesBounded
<1>12. PlanMeans(v)'
  BY <1>1, <1>6, <1>7, <1>8, <1>9, <1>10, <1>11 DEF PlanMeans, Underway
<1> QED
  BY <1>12

\* The one field_lz record ends the plan, or delta_int behind it does.
LEMMA FieldLzEnds ==
  ASSUME NEW ts \in Seq(Transform), NoFieldLz(ts), NEW f \in Transform, f.id = "field_lz",
         NEW u \in Transform, u.id = "delta_int", u.ins[1] = f.out
  PROVE  /\ EndsInFinal(Append(ts, f), f.out)
         /\ EndsInFinal(Append(Append(ts, f), u), u.out)
<1> DEFINE fs == Append(ts, f)
           us == Append(fs, u)
           l == Len(ts)
<1> HIDE DEF Transform
<1>1. /\ l \in Nat /\ fs \in Seq(Transform) /\ Len(fs) = l + 1
      /\ DOMAIN ts = 1..l /\ DOMAIN fs = 1..(l + 1)
      /\ \A k \in 1..l : fs[k] = ts[k]
      /\ fs[l + 1] = f
  BY Appended
<1>2. /\ DOMAIN us = 1..((l + 1) + 1)
      /\ \A k \in 1..(l + 1) : us[k] = fs[k]
      /\ us[(l + 1) + 1] = u
  <2> HIDE DEF fs
  <2> QED
    BY <1>1, Appended
<1> HIDE DEF fs, us
<1>3. \A j \in DOMAIN fs : fs[j].id = "field_lz" <=> j = l + 1
  <2>1. \A j \in DOMAIN fs : j = l + 1 \/ (j \in DOMAIN ts /\ j # l + 1)
    BY <1>1
  <2> QED
    BY <1>1, <2>1 DEF NoFieldLz
<1>4. \A j \in DOMAIN us : us[j].id = "field_lz" <=> j = l + 1
  <2>1. \A j \in DOMAIN us :
          (j = (l + 1) + 1 /\ j # l + 1) \/ j \in DOMAIN fs
    BY <1>1, <1>2
  <2> QED
    BY <1>1, <1>2, <1>3, <2>1
<1>5. EndsInFinal(fs, f.out)
  <2>1. l + 1 \in DOMAIN fs
    BY <1>1
  <2> QED
    BY <1>1, <1>3, <2>1 DEF EndsInFinal
<1>6. EndsInFinal(us, u.out)
  <2>1. l + 1 \in DOMAIN us /\ (l + 1) + 1 \in DOMAIN us /\ us[l + 1] = f
    BY <1>1, <1>2
  <2> QED
    BY <1>2, <1>4, <2>1 DEF EndsInFinal
<1> QED
  BY <1>5, <1>6 DEF fs, us

\* FieldLZ, and delta_int behind it when it was run on deltas, make the chunk.
LEMMA GraphExplained ==
  ASSUME PlanInv, NEW m, PlanMeans(m), CloseGraph
  PROVE  \E v : PlanMeans(v)'
<1> DEFINE f == Record("field_lz", inputs, nextId, chunkLen)
           u == Record("delta_int", <<nextId>>, nextId + 1, 0)
           ts == Append(transforms, f)
           us == Append(ts, u)
           n == nextId + 1
           l == Len(transforms)
           made == IF delta THEN Parsed ELSE ChunkOf
           size == U32Width * chunkLen
<1>1. /\ phase = "streams" /\ Len(inputs) = Len(FieldLzWidths)
      /\ transforms' = transforms \o (IF delta THEN <<f, u>> ELSE <<f>>)
      /\ final' = IF delta THEN nextId + 1 ELSE nextId
      /\ nextId' = final' + 1 /\ stored' = stored
      /\ phase' = "planned" /\ UNCHANGED planned /\ chunkLen' = chunkLen
  BY DEF CloseGraph, planned
<1>2. /\ nextId \in Nat /\ n \in Nat /\ l \in Nat /\ Len(inputs) = 5
      /\ inputs \in Seq(Nat) /\ chunkLen \in Nat /\ delta \in BOOLEAN
      /\ transforms \in Seq(Transform)
  <2>1. \A e \in 0..(nextId - 1) : e \in Nat
    BY IdLists
  <2>2. nextId \in Nat /\ Len(inputs) = 5 /\ inputs \in Seq(Nat) /\ nextId + 1 \in Nat
    <3>1. Len(inputs) = Len(FieldLzWidths)
      BY <1>1
    <3>2. Len(inputs) = 5
      BY <3>1, IdLists
    <3>3. inputs \in Seq(Nat)
      BY <2>1, IdLists
    <3>4. nextId \in Nat /\ nextId + 1 \in Nat
      BY IdLists
    <3> QED
      BY <3>2, <3>3, <3>4
  <2>3. chunkLen \in Nat
    BY SizeFacts
  <2>4. delta \in BOOLEAN /\ transforms \in Seq(Transform)
    BY DEF PlanInv, PlanTypeOK, Dense
  <2>5. l \in Nat
    BY <2>4
  <2> QED
    BY <2>2, <2>3, <2>4, <2>5
<1>3. f \in Transform /\ f.id = "field_lz" /\ f.ins = inputs /\ f.out = nextId
  BY <1>2 DEF Record, Transform, TransformShape
<1>4. /\ u \in Transform /\ u.id = "delta_int" /\ u.ins = <<nextId>> /\ u.out = n
      /\ DOMAIN u.ins = {1} /\ u.ins[1] = nextId
  BY <1>2 DEF Record, Transform, TransformShape
<1>5. Makes(m, f, made, size, 4)
  <2>1. \A k \in DOMAIN inputs :
          Holds(m, inputs[k], Side(k), entries[k] * FieldLzWidths[k], FieldLzWidths[k])
    BY <1>1 DEF PlanMeans
  <2> QED
    BY <1>1, <1>2, <2>1, FieldLzPasses
<1>6. \A v : v[nextId] = [payload |-> Rebuilt(Parsed, size), width |-> 4]
            => Makes(v, u, ChunkOf, size, 4)
  BY DeltaPasses
<1> HIDE DEF f, u
<1>7. /\ Sound(m, stored, transforms, nextId) /\ NoFieldLz(transforms)
      /\ AllReadBut(Elements(inputs), transforms, nextId)
      /\ nextId <= 17 /\ l <= 9
  BY <1>1, <1>2 DEF PlanMeans
<1>8. PICK v : v = Adding(m, nextId, Result(m, f))
  OBVIOUS
<1>9. Sound(v, stored, ts, n) /\ AllReadBut({nextId}, ts, n)
  <2>1. \A k \in DOMAIN f.ins : f.ins[k] \in 0..(nextId - 1)
    <3>1. \A k \in DOMAIN inputs : inputs[k] \in 0..(nextId - 1)
      BY IdLists
    <3> QED
      BY <1>3, <3>1
  <2>2. \A s \in Elements(inputs) : s \in {nextId} \/ \E k \in DOMAIN f.ins : f.ins[k] = s
    BY <1>3 DEF Elements
  <2>3. Passes(m, f) /\ Result(m, f) \in Known
    BY <1>5 DEF Makes
  <2>4. AllReadBut({nextId}, ts, n)
    <3>1. nextId \in {nextId}
      OBVIOUS
    <3> QED
      BY <1>2, <1>3, <1>7, <2>2, <3>1, OutputIsUnread
  <2> QED
    BY <1>3, <1>7, <1>8, <2>1, <2>3, <2>4, RecordExplains
<1>10. v[nextId] = [payload |-> Rebuilt(made, size), width |-> 4]
  <2>1. m \in Explanations(nextId) /\ Result(m, f) \in Known
    BY <1>5, <1>7 DEF Makes, Sound
  <2>2. v[nextId] = Result(m, f)
    BY <1>2, <1>8, <2>1, AddedExplanation
  <2> QED
    BY <1>5, <2>2 DEF Makes
<1>11. /\ ts \in Seq(Transform) /\ Len(ts) = l + 1 /\ Len(us) = (l + 1) + 1
       /\ transforms \o <<f>> = ts /\ transforms \o <<f, u>> = us
  <2> HIDE DEF Transform
  <2>1. ts \in Seq(Transform) /\ Len(ts) = l + 1
    BY <1>2, <1>3, Appended
  <2>2. Len(us) = (l + 1) + 1
    <3> HIDE DEF ts
    <3> QED
      BY <1>4, <2>1, Appended
  <2> QED
    BY <1>2, <1>3, <1>4, <2>1, <2>2, ConcatIsAppend
<1>12. EndsInFinal(ts, nextId) /\ EndsInFinal(us, n)
  BY <1>2, <1>3, <1>4, <1>7, FieldLzEnds
<1>13. CASE ~ delta
  <2>1. transforms' = ts /\ final' = nextId /\ nextId' = n
    BY <1>1, <1>11, <1>13
  <2>2. v[nextId].payload = Rebuilt(ChunkOf, size)
    BY <1>10, <1>13
  <2> HIDE DEF ts, us
  <2>3. Sound(v, stored, transforms, nextId)'
    BY <1>1, <1>9, <2>1, SoundNext
  <2>4. /\ final' \in 0..(nextId' - 1) /\ nextId' <= 19 /\ Len(transforms') <= 11
    BY <1>2, <1>7, <1>11, <2>1
  <2>5. AllReadBut({final'}, transforms', nextId') /\ EndsInFinal(transforms', final')
    BY <1>9, <1>12, <2>1
  <2>6. PlanMeans(v)'
    BY <1>1, <2>1, <2>2, <2>3, <2>4, <2>5 DEF PlanMeans
  <2> QED
    BY <2>6
<1>14. CASE delta
  <2>1. transforms' = us /\ final' = n /\ nextId' = n + 1
    BY <1>1, <1>11, <1>14
  <2>2. Makes(v, u, ChunkOf, size, 4)
    BY <1>6, <1>10, <1>14
  <2>3. PICK x : x = Adding(v, n, Result(v, u))
    OBVIOUS
  <2> HIDE DEF ts
  <2>4. Sound(x, stored, us, n + 1) /\ AllReadBut({n}, us, n + 1)
    <3>1. \A k \in DOMAIN u.ins : u.ins[k] \in 0..(n - 1)
      BY <1>2, <1>4
    <3>2. \A s \in {nextId} : s \in {n} \/ \E k \in DOMAIN u.ins : u.ins[k] = s
      BY <1>4
    <3>3. Passes(v, u) /\ Result(v, u) \in Known
      BY <2>2 DEF Makes
    <3>4. n \in {n}
      OBVIOUS
    <3> HIDE DEF n
    <3>5. AllReadBut({n}, us, n + 1)
      BY <1>2, <1>4, <1>9, <1>11, <3>2, <3>4, OutputIsUnread
    <3>6. Sound(x, stored, us, n + 1)
      BY <1>4, <1>9, <2>3, <3>1, <3>3, RecordExplains
    <3> QED
      BY <3>5, <3>6
  <2>5. x[n].payload = Rebuilt(ChunkOf, size)
    <3>1. v \in Explanations(n) /\ Result(v, u) \in Known
      BY <1>9, <2>2 DEF Makes, Sound
    <3>2. x[n] = Result(v, u)
      <4> HIDE DEF n
      <4> QED
        BY <1>2, <2>3, <3>1, AddedExplanation
    <3> QED
      BY <2>2, <3>2 DEF Makes
  <2> HIDE DEF us
  <2>6. Sound(x, stored, transforms, nextId)'
    BY <1>1, <2>4, <2>1, SoundNext
  <2>7. /\ final' \in 0..(nextId' - 1) /\ nextId' <= 19 /\ Len(transforms') <= 11
    BY <1>2, <1>7, <1>11, <2>1
  <2>8. AllReadBut({final'}, transforms', nextId') /\ EndsInFinal(transforms', final')
    BY <1>12, <2>1, <2>4
  <2>9. PlanMeans(x)'
    BY <1>1, <2>1, <2>5, <2>6, <2>7, <2>8 DEF PlanMeans
  <2> QED
    BY <2>9
<1> QED
  BY <1>2, <1>13, <1>14

\* Every step of the planner leaves a plan that explains its ids.
LEMMA PlanStepExplained ==
  ASSUME PlanInv, NEW m, PlanMeans(m), PlanStep
  PROVE  \E v : PlanMeans(v)'
<1>1. CASE PlanDictionary
  BY <1>1, DictionaryExplained
<1>2. CASE PlanSplit
  <2>1. /\ phase = "literals" /\ phase' = "lanes" /\ lanes' = lanes /\ UNCHANGED planned
        /\ nextId' = nextId /\ stored' = stored /\ transforms' = transforms
    BY <1>2 DEF PlanSplit
  <2>2. lanes = <<>> /\ nextId = 0 /\ transforms = <<>> /\ NoFieldLz(transforms)
    BY <2>1 DEF PlanMeans
  <2>3. Sound(m, stored, transforms, nextId)'
    BY <2>1, SoundNext DEF PlanMeans
  <2>4. Len(lanes') = 0 /\ Len(transforms') = 0 /\ DOMAIN lanes' = {}
    BY <2>1, <2>2
  <2>5. AllReadBut(Elements(lanes'), transforms', nextId')
    BY <2>1, <2>2 DEF AllReadBut
  <2>6. PlanMeans(m)'
    BY <2>1, <2>2, <2>3, <2>4, <2>5 DEF PlanMeans
  <2> QED
    BY <2>6
<1>3. CASE AppendLane
  BY <1>3, LaneExplained
<1>4. CASE CloseLanes
  BY <1>4, LanesExplained
<1>5. CASE PlanRawLiterals
  <2>1. /\ phase = "literals" /\ AppendSideStream(1) /\ phase' = "streams" /\ UNCHANGED planned
        /\ inputs = <<>> /\ Len(inputs) = 0 /\ DOMAIN inputs = {} /\ Elements(inputs) = {}
    BY <1>5 DEF PlanRawLiterals, PlanInv, Elements
  <2>2. /\ Underway(m, stored, transforms, nextId, Elements(inputs))
        /\ nextId = 0 /\ Len(transforms) = 0
    BY <2>1, MeansUnderway DEF PlanMeans
  <2>3. nextId <= 7 + 2 * Len(inputs) /\ Len(transforms) <= 4 + Len(inputs)
    BY <2>1, <2>2
  <2> QED
    BY <2>1, <2>2, <2>3, SideStreamExplained
<1>6. CASE AppendRaw
  <2> DEFINE k == Len(inputs) + 1
  <2>1. /\ phase = "streams" /\ AppendSideStream(k) /\ Len(inputs) < Len(FieldLzWidths)
        /\ phase' = "streams" /\ UNCHANGED planned
    BY <1>6 DEF AppendRaw
  <2>2. k \in 1..5
    <3>1. Len(inputs) \in Nat /\ Len(inputs) < 5
      BY <2>1, IdLists
    <3> QED
      BY <3>1
  <2>3. Underway(m, stored, transforms, nextId, Elements(inputs))
    BY <2>1, MeansUnderway
  <2>4. /\ \A i \in DOMAIN inputs :
             Holds(m, inputs[i], Side(i), entries[i] * FieldLzWidths[i], FieldLzWidths[i])
        /\ nextId <= 7 + 2 * Len(inputs) /\ Len(transforms) <= 4 + Len(inputs)
    BY <2>1 DEF PlanMeans
  <2> QED
    BY <2>1, <2>2, <2>3, <2>4, SideStreamExplained
<1>7. CASE CloseGraph
  BY <1>7, GraphExplained
<1> QED
  BY <1>1, <1>2, <1>3, <1>4, <1>5, <1>6, <1>7 DEF PlanStep

\* What is said of a plan stays said while the plan is left alone.
LEMMA MeansStay ==
  ASSUME UNCHANGED planVars, NEW m, PlanMeans(m)
  PROVE  PlanMeans(m)'
<1>1. /\ phase' = phase /\ inputs' = inputs /\ lanes' = lanes /\ UNCHANGED planned
      /\ nextId' = nextId /\ stored' = stored /\ transforms' = transforms
      /\ chunkLen' = chunkLen /\ entries' = entries /\ delta' = delta /\ final' = final
  BY DEF planVars, planned
<1>2. Sound(m, stored, transforms, nextId)'
  BY <1>1, SoundNext DEF PlanMeans
<1> QED
  BY <1>1, <1>2 DEF PlanMeans

-----------------------------------------------------------------------------
\* Lemmas about reading the plan back

\* While the decoder reads, the planner has returned.
LEMMA PlannerHasReturned ==
  ASSUME ReadInv, status = "reading"
  PROVE  ~ PlanStep
  BY DEF ReadInv, PlanStep, PlanDictionary, PlanSplit, AppendLane, CloseLanes,
         PlanRawLiterals, AppendRaw, CloseGraph

\* An acceptable record names a transform, as many filled slots as that takes, a
\* slot nobody has filled, and, where the codec reads it, a width.
LEMMA AcceptableParts ==
  ASSUME NEW rec \in Transform, Acceptable(rec)
  PROVE  /\ rec.id \in Map!TransformId
         /\ rec.ins \in [1..Map!Arity(rec.id) -> Map!InputSlots]
         /\ rec.out \in Map!OutputSlots
         /\ rec.id \in {"zstd", "literal_dict_u32"} => rec.private \in Width
<1>1. /\ rec.id \in Map!TransformId /\ rec.ins \in Seq(Nat)
      /\ rec.id = "zstd" => rec.private \in {1, 2, 4}
  BY DEF Transform, TransformShape, Map!TransformId
<1>2. /\ \A k \in DOMAIN rec.ins : rec.ins[k] \in Map!InputSlots
      /\ rec.out \in Map!OutputSlots
      /\ Len(rec.ins) = Map!Arity(rec.id)
      /\ rec.id = "literal_dict_u32" => rec.private \in {1, 2}
  BY DEF Acceptable, Map!AcceptsHeader
<1>3. rec.ins \in [1..Map!Arity(rec.id) -> Map!InputSlots]
  BY <1>1, <1>2
<1>4. {1, 2, 4} \subseteq Width
  BY ComposedAssumption DEF Map!MapAssumption
<1> QED
  BY <1>1, <1>2, <1>3, <1>4

\* Executing an acceptable record is a step of DecodingMap that logs it.
LEMMA ExecuteIsMapStep ==
  ASSUME PlanInv, ReadInv, ExecuteTransform, Acceptable(NextRecord)
  PROVE  Map!ExecuteTransform /\ log' \in Seq(Map!LogEntry)
<1> DEFINE rec == NextRecord
           w == IF rec.id \in {"zstd", "literal_dict_u32"} THEN rec.private ELSE 1
           full == IsFull(Restored(rec, Given(rec)))
<1>1. /\ status = "reading" /\ storedRead = header.stored
      /\ Len(log) < header.transforms
      /\ Map!ExecuteRecord(rec.id, rec.ins, rec.out, rec.private, full)
      /\ UNCHANGED <<status, header, storedRead>>
  BY DEF ExecuteTransform
<1>2. rec \in Transform
  <2>1. log \in Seq(Map!LogEntry) /\ header.transforms = Len(transforms)
    BY <1>1 DEF ReadInv
  <2>2. Len(log) \in Nat /\ transforms \in Seq(Transform)
    BY <2>1 DEF PlanInv, Dense
  <2> HIDE DEF Transform
  <2>3. Len(log) + 1 \in 1..Len(transforms)
    BY <1>1, <2>1, <2>2
  <2> QED
    BY <2>2, <2>3 DEF NextRecord
<1>3. full \in BOOLEAN
  BY DEF IsFull
<1> HIDE DEF rec, full
<1>4. Acceptable(rec)
  BY DEF rec
<1>5. /\ rec.id \in Map!TransformId
      /\ rec.ins \in [1..Map!Arity(rec.id) -> Map!InputSlots]
      /\ rec.out \in Map!OutputSlots
      /\ rec.id \in {"zstd", "literal_dict_u32"} => rec.private \in Width
  BY <1>2, <1>4, AcceptableParts
<1>6. w \in Width
  <2>1. 1 \in Width
    BY ComposedAssumption DEF Map!MapAssumption
  <2> QED
    BY <1>5, <2>1
<1>7. Map!ExecuteRecord(rec.id, rec.ins, rec.out, w, full)
  <2>1. CASE rec.id \in {"zstd", "literal_dict_u32"}
    BY <1>1, <2>1
  <2>2. CASE rec.id \notin {"zstd", "literal_dict_u32"}
    <3>1. /\ Map!AcceptsHeader(rec.id, w)
          /\ Map!OutputWidth(rec.id, w) = Map!OutputWidth(rec.id, rec.private)
          /\ \A k, actual : Map!AcceptsWidth(rec.id, k, rec.private, actual)
                            => Map!AcceptsWidth(rec.id, k, w, actual)
      BY <2>2 DEF Map!AcceptsHeader, Map!OutputWidth, Map!AcceptsWidth
    <3> HIDE DEF w
    <3> QED
      BY <1>1, <3>1 DEF Map!ExecuteRecord
  <2> QED
    BY <2>1, <2>2
<1> HIDE DEF w
<1>8. Map!ExecuteTransform
  BY <1>1, <1>3, <1>5, <1>6, <1>7 DEF Map!ExecuteTransform
<1>9. log' \in Seq(Map!LogEntry)
  <2>1. rec.ins \in Seq(Nat) /\ rec.out \in Nat
    BY <1>2 DEF Transform, TransformShape
  <2>2. Map!Arity(rec.id) \in Nat /\ 1 \in 1..Map!Arity(rec.id)
    BY <1>5, ComposedAssumption DEF Map!MapAssumption, Map!Arity, Map!TransformId
  <2>3. rec.ins[1] \in Nat
    BY <1>5, <2>1, <2>2
  <2>4. [id |-> rec.id, input |-> rec.ins[1], output |-> rec.out] \in Map!LogEntry
    BY <1>5, <2>1, <2>3 DEF Map!LogEntry
  <2>5. log' = Append(log, [id |-> rec.id, input |-> rec.ins[1], output |-> rec.out])
    BY <1>7 DEF Map!ExecuteRecord
  <2>6. log \in Seq(Map!LogEntry)
    BY DEF ReadInv
  <2> HIDE DEF Map!LogEntry
  <2> QED
    BY <2>4, <2>5, <2>6, Appended
<1> QED
  BY <1>8, <1>9

\* Every step of the two functions is a step of DecodingMap or leaves it alone,
\* and the plan that is read stays the plan that was announced.
LEMMA StepIsMapStep ==
  ASSUME PlanInv, ReadInv, [Next]_vars
  PROVE  [Map!Next]_(Map!vars) /\ ReadInv'
<1>1. CASE Plan
  <2>1. /\ PlanStep /\ status' = status /\ header' = header /\ log' = log
        /\ UNCHANGED Map!vars
    BY <1>1 DEF Plan, mapVars, Map!vars
  <2>2. status # "reading"
    BY <2>1, PlannerHasReturned
  <2> QED
    BY <2>1, <2>2 DEF ReadInv
<1>2. CASE ReadHeader
  <2>1. phase = "planned" /\ phase' = phase /\ transforms' = transforms
    BY <1>2 DEF ReadHeader, planVars, planned
  <2>2. CASE HeaderAcceptable
    <3>1. Map!ReadHeader /\ header'.transforms = Len(transforms) /\ log' = log
      BY <1>2, <2>2 DEF ReadHeader, Map!ReadHeader
    <3> QED
      BY <2>1, <3>1 DEF ReadInv, Map!Next
  <2>3. CASE ~ HeaderAcceptable
    <3>1. Map!Fail /\ status' = "rejected" /\ log' = log
      BY <1>2, <2>3 DEF ReadHeader, Refused, Map!Fail
    <3> QED
      BY <3>1 DEF ReadInv, Map!Next
  <2> QED
    BY <2>2, <2>3
<1>3. CASE ReadStored
  <2>1. phase' = phase /\ transforms' = transforms
    BY <1>3 DEF ReadStored, planVars, planned
  <2>2. CASE NextStored.id \in Map!Undefined
    <3>1. Map!ReadStored /\ header' = header /\ status' = status /\ log' = log
      BY <1>3, <2>2 DEF ReadStored, Map!ReadStored
    <3> QED
      BY <2>1, <3>1 DEF ReadInv, Map!Next
  <2>3. CASE NextStored.id \notin Map!Undefined
    <3>1. Map!Fail /\ status' = "rejected" /\ log' = log
      BY <1>3, <2>3 DEF ReadStored, Refused, Map!Fail
    <3> QED
      BY <3>1 DEF ReadInv, Map!Next
  <2> QED
    BY <2>2, <2>3
<1>4. CASE ExecuteTransform
  <2>1. phase' = phase /\ transforms' = transforms
    BY <1>4 DEF ExecuteTransform, planVars, planned
  <2>2. CASE Acceptable(NextRecord)
    <3>1. Map!ExecuteTransform /\ log' \in Seq(Map!LogEntry)
      BY <1>4, <2>2, ExecuteIsMapStep
    <3>2. header' = header /\ status' = status
      BY <3>1 DEF Map!ExecuteTransform
    <3> QED
      BY <2>1, <3>1, <3>2 DEF ReadInv, Map!Next
  <2>3. CASE ~ Acceptable(NextRecord)
    <3>1. Map!Fail /\ status' = "rejected" /\ log' = log
      BY <1>4, <2>3 DEF ExecuteTransform, Refused, Map!Fail
    <3> QED
      BY <3>1 DEF ReadInv, Map!Next
  <2> QED
    BY <2>2, <2>3
<1>5. CASE Judge
  <2>1. Map!Judge /\ status' \in {"accepted", "rejected"} /\ log' = log
    BY <1>5 DEF Judge, Map!Judge
  <2> QED
    BY <2>1 DEF ReadInv, Map!Next
<1>6. CASE Returned \/ UNCHANGED vars
  <2>1. /\ status' = status /\ phase' = phase /\ header' = header
        /\ transforms' = transforms /\ log' = log /\ UNCHANGED Map!vars
    BY <1>6 DEF Returned, vars, mapVars, Map!vars, planVars, planned
  <2> QED
    BY <2>1 DEF ReadInv
<1> QED
  BY <1>1, <1>2, <1>3, <1>4, <1>5, <1>6 DEF Next

-----------------------------------------------------------------------------
\* What the decoder's steps do to an explanation

\* The header names a plan within the limits, and every slot is empty.
LEMMA HeaderExplained ==
  ASSUME PlanInv, NEW m, ExplainedBy(m), ReadHeader
  PROVE  ExplainedBy(m)'
<1>1. /\ status = "header" /\ phase = "planned" /\ PlanMeans(m) /\ UNCHANGED planVars
      /\ DOMAIN contents = {} /\ storedRead = 0 /\ log = <<>>
  BY DEF ReadHeader, ExplainedBy
<1>2. /\ stored \in Seq(Stored) /\ transforms \in Seq(Transform) /\ nextId \in Nat
      /\ Len(stored) \in Nat /\ Len(transforms) \in Nat
      /\ Len(stored) + Len(transforms) = nextId
      /\ nextId <= 19 /\ Len(transforms) <= 11 /\ final \in 0..(nextId - 1)
  BY <1>1 DEF PlanInv, Dense, PlanMeans
<1>3. HeaderAcceptable
  <2>1. MaxSlots \in Nat /\ MaxTransforms \in Nat
    BY ComposedAssumption DEF Map!MapAssumption
  <2> QED
    BY <1>2, <2>1, LimitsAssumption DEF HeaderAcceptable
<1>4. /\ header' = [slots |-> nextId, stored |-> Len(stored),
                   transforms |-> Len(transforms), final |-> final]
      /\ Map!ReadHeader /\ contents' = contents
  BY <1>3 DEF ReadHeader
<1>5. /\ slots' = [s \in 0..(nextId - 1) |-> Map!EmptySlot]
      /\ status' = "reading" /\ storedRead' = 0 /\ log' = <<>>
  BY <1>1, <1>4 DEF Map!ReadHeader
<1>6. /\ phase' = phase /\ stored' = stored /\ transforms' = transforms
      /\ nextId' = nextId /\ final' = final
  BY <1>1 DEF planVars
<1>7. slots' \in [0..(nextId' - 1) -> Map!Slot]
  BY <1>5, <1>6 DEF Map!EmptySlot, Map!Slot, Map!NoWidth
<1>8. Len(log') = 0 /\ 1..storedRead' = {} /\ 1..Len(log') = {}
  BY <1>5
<1>9. ReadIds' = {}
  BY <1>8 DEF ReadIds
<1>10. \A s \in 0..(nextId' - 1) : ~ slots'[s].defined /\ slots'[s].width = 0
  BY <1>5, <1>6 DEF Map!EmptySlot, Map!NoWidth
<1>11. \A s \in 0..(nextId' - 1) :
         /\ slots'[s].defined <=> s \in ReadIds'
         /\ s \notin ReadIds' => slots'[s].width = 0
         /\ s \in ReadIds' => /\ contents'[s] = m[s].payload
                              /\ slots'[s].width = m[s].width
                              /\ slots'[s].full <=> IsFull(contents[s])'
  BY <1>9, <1>10
<1>12. \A j \in 1..Len(log') :
         /\ log'[j] = [id |-> transforms'[j].id, input |-> transforms'[j].ins[1],
                       output |-> transforms'[j].out]
         /\ \A k \in DOMAIN transforms'[j].ins : slots'[transforms'[j].ins[k]].used
  BY <1>8
<1>13. /\ phase' = "planned" /\ DOMAIN contents' = ReadIds'
       /\ header' = [slots |-> nextId', stored |-> Len(stored'),
                     transforms |-> Len(transforms'), final |-> final']
       /\ storedRead' \in 0..Len(stored') /\ Len(log') \in 0..Len(transforms')
       /\ ~ (Len(log') > 0)
  BY <1>1, <1>2, <1>4, <1>5, <1>6, <1>8, <1>9
<1>14. ReadMeans(m)'
  BY <1>7, <1>11, <1>12, <1>13 DEF ReadMeans
<1> QED
  BY <1>1, <1>5, <1>14, MeansStay DEF ExplainedBy

\* A stored stream fills a slot nobody has filled, with what the plan says.
LEMMA StoredExplained ==
  ASSUME PlanInv, NEW m, ExplainedBy(m), ReadStored
  PROVE  ExplainedBy(m)'
<1> DEFINE i == storedRead + 1
           x == NextStored
<1>1. /\ status = "reading" /\ storedRead < header.stored
      /\ PlanMeans(m) /\ ReadMeans(m) /\ UNCHANGED planVars
  BY DEF ReadStored, ExplainedBy
<1>2. /\ phase = "planned" /\ header.stored = Len(stored)
      /\ storedRead \in 0..Len(stored) /\ Len(log) \in 0..Len(transforms)
      /\ slots \in [0..(nextId - 1) -> Map!Slot] /\ DOMAIN contents = ReadIds
      /\ Sound(m, stored, transforms, nextId)
  BY <1>1 DEF ReadMeans, PlanMeans
<1>3. /\ stored \in Seq(Stored) /\ transforms \in Seq(Transform) /\ nextId \in Nat
      /\ Len(stored) \in Nat /\ Len(transforms) \in Nat
      /\ DOMAIN stored = 1..Len(stored) /\ DOMAIN transforms = 1..Len(transforms)
  BY DEF PlanInv, Dense
<1>4. i \in DOMAIN stored /\ storedRead \in Nat /\ Len(log) \in Nat /\ x = stored[i]
  BY <1>1, <1>2, <1>3 DEF NextStored
<1>5. x.id \in 0..(nextId - 1) /\ m[x.id] = [payload |-> x.payload, width |-> 0]
  BY <1>2, <1>4, IdsHandedOut DEF Sound
<1>6. x.id \notin ReadIds
  <2>1. \A k \in 1..storedRead : k \in DOMAIN stored /\ k # i
    BY <1>1, <1>2, <1>3, <1>4
  <2>2. \A j \in 1..Len(log) : j \in DOMAIN transforms
    BY <1>2, <1>3
  <2> HIDE DEF i, x
  <2> QED
    BY <1>2, <1>4, <2>1, <2>2 DEF Sound, FilledOnce, ReadIds
<1>7. x.id \in Map!Undefined
  BY <1>1, <1>2, <1>5, <1>6 DEF ReadMeans, Map!Undefined, Map!Defined
<1>8. /\ slots' = [slots EXCEPT ![x.id].defined = TRUE, ![x.id].full = IsFull(x.payload)]
      /\ contents' = Filled(x.id, x.payload)
      /\ storedRead' = i /\ status' = status /\ header' = header /\ log' = log
  BY <1>7 DEF ReadStored, Map!ReadStored
<1>9. /\ phase' = phase /\ stored' = stored /\ transforms' = transforms
      /\ nextId' = nextId /\ final' = final /\ chunkLen' = chunkLen
  BY <1>1 DEF planVars, planned
<1>10. ReadIds' = ReadIds \cup {x.id}
  <2>1. \A k : k \in 1..i <=> k \in 1..storedRead \/ k = i
    BY <1>4
  <2> HIDE DEF i, x
  <2> QED
    BY <1>4, <1>8, <1>9, <2>1 DEF ReadIds
<1>11. /\ slots' \in [0..(nextId' - 1) -> Map!Slot]
       /\ \A s \in 0..(nextId - 1) :
            /\ slots'[s].width = slots[s].width /\ slots'[s].used = slots[s].used
            /\ s # x.id => slots'[s] = slots[s]
       /\ slots'[x.id].defined /\ (slots'[x.id].full <=> IsFull(x.payload))
  <2>1. IsFull(x.payload) \in BOOLEAN
    BY DEF IsFull
  <2> HIDE DEF i, x
  <2>2. slots[x.id] \in Map!Slot
    BY <1>2, <1>5
  <2>3. slots'[x.id] = [slots[x.id] EXCEPT !.defined = TRUE, !.full = IsFull(x.payload)]
    BY <1>2, <1>5, <1>8
  <2>4. \A s \in 0..(nextId - 1) : s # x.id => slots'[s] = slots[s]
    BY <1>2, <1>5, <1>8
  <2>5. /\ slots'[x.id] \in Map!Slot
        /\ slots'[x.id].width = slots[x.id].width /\ slots'[x.id].used = slots[x.id].used
        /\ slots'[x.id].defined /\ (slots'[x.id].full <=> IsFull(x.payload))
    BY <2>1, <2>2, <2>3 DEF Map!Slot
  <2>6. slots' = [s \in 0..(nextId - 1) |-> slots'[s]]
    BY <1>2, <1>8
  <2>7. \A s \in 0..(nextId - 1) : slots'[s] \in Map!Slot
    BY <1>2, <2>4, <2>5
  <2> HIDE DEF Map!Slot
  <2>8. slots' \in [0..(nextId' - 1) -> Map!Slot]
    BY <1>9, <2>6, <2>7
  <2> QED
    BY <2>4, <2>5, <2>8
<1>12. /\ DOMAIN contents' = ReadIds \cup {x.id} /\ contents'[x.id] = x.payload
       /\ \A s \in ReadIds : contents'[s] = contents[s]
  BY <1>2, <1>6, <1>8 DEF Filled
<1> HIDE DEF i, x
<1>13. \A s \in 0..(nextId - 1) :
         /\ slots'[s].defined <=> s \in ReadIds'
         /\ s \notin ReadIds' => slots'[s].width = 0
         /\ s \in ReadIds' => /\ contents'[s] = m[s].payload
                              /\ slots'[s].width = m[s].width
                              /\ slots'[s].full <=> IsFull(contents[s])'
  <2>1. \A p : IsFull(p)' <=> IsFull(p)
    BY <1>9 DEF IsFull
  <2>2. \A s \in 0..(nextId - 1) :
          /\ slots[s].defined <=> s \in ReadIds
          /\ s \notin ReadIds => slots[s].width = 0
          /\ s \in ReadIds => /\ contents[s] = m[s].payload
                              /\ slots[s].width = m[s].width
                              /\ slots[s].full <=> IsFull(contents[s])
    BY <1>1 DEF ReadMeans
  <2> SUFFICES ASSUME NEW s \in 0..(nextId - 1)
               PROVE  /\ slots'[s].defined <=> s \in ReadIds'
                      /\ s \notin ReadIds' => slots'[s].width = 0
                      /\ s \in ReadIds' => /\ contents'[s] = m[s].payload
                                           /\ slots'[s].width = m[s].width
                                           /\ slots'[s].full <=> IsFull(contents'[s])
    BY <2>1
  <2>3. CASE s = x.id
    BY <1>5, <1>6, <1>10, <1>11, <1>12, <2>2, <2>3
  <2>4. CASE s # x.id
    BY <1>10, <1>11, <1>12, <2>2, <2>4
  <2> QED
    BY <2>3, <2>4
<1>14. \A j \in 1..Len(log) :
         /\ log[j] = [id |-> transforms[j].id, input |-> transforms[j].ins[1],
                      output |-> transforms[j].out]
         /\ \A k \in DOMAIN transforms[j].ins : slots'[transforms[j].ins[k]].used
  <2>1. \A j \in 1..Len(log) : j \in DOMAIN transforms
    BY <1>2, <1>3
  <2>2. \A j \in 1..Len(log) : \A k \in DOMAIN transforms[j].ins :
          transforms[j].ins[k] \in 0..(nextId - 1)
    BY <1>2, <2>1, IdsHandedOut DEF Sound
  <2> QED
    BY <1>1, <1>11, <2>2 DEF ReadMeans
<1>15. storedRead' \in 0..Len(stored) /\ (Len(log) > 0 => storedRead' = Len(stored))
  <2>1. ~ (Len(log) > 0)
    BY <1>1, <1>2, <1>4 DEF ReadMeans
  <2> QED
    BY <1>3, <1>4, <1>8, <2>1
<1>16. header' = [slots |-> nextId', stored |-> Len(stored)',
                transforms |-> Len(transforms)', final |-> final']
  BY <1>1, <1>8, <1>9 DEF ReadMeans
<1>17. /\ phase' = "planned" /\ DOMAIN contents' = ReadIds'
       /\ Len(log') \in 0..Len(transforms')
  BY <1>2, <1>8, <1>9, <1>10, <1>12
<1>18. ReadMeans(m)'
  BY <1>8, <1>9, <1>11, <1>13, <1>14, <1>15, <1>16, <1>17 DEF ReadMeans
<1> QED
  BY <1>1, <1>8, <1>18, MeansStay DEF ExplainedBy

\* The next record passes, because its inputs are in the slots the plan says.
LEMMA NextIsAcceptable ==
  ASSUME PlanInv, NEW m, Sound(m, stored, transforms, nextId), ReadMeans(m),
         storedRead = Len(stored), NEW j \in DOMAIN transforms, j = Len(log) + 1,
         NEW r, r = transforms[j]
  PROVE  /\ Acceptable(r) /\ Given(r) = Taken(m, r)
         /\ \A k \in DOMAIN r.ins : r.ins[k] \in 0..(nextId - 1)
         /\ r.out \in 0..(nextId - 1) /\ r.out \notin ReadIds
<1>1. /\ Len(log) \in 0..Len(transforms) /\ DOMAIN slots = 0..(nextId - 1)
      /\ \A s \in 0..(nextId - 1) :
           /\ slots[s].defined <=> s \in ReadIds
           /\ s \in ReadIds => contents[s] = m[s].payload /\ slots[s].width = m[s].width
  BY DEF ReadMeans
<1>2. /\ DOMAIN stored = 1..Len(stored) /\ DOMAIN transforms = 1..Len(transforms)
      /\ Len(log) \in Nat /\ Len(transforms) \in Nat
  BY <1>1 DEF PlanInv, Dense
<1>3. /\ \A i \in DOMAIN stored : stored[i].id \in 0..(nextId - 1)
      /\ r.out \in 0..(nextId - 1)
      /\ \A k \in DOMAIN r.ins : r.ins[k] \in 0..(nextId - 1)
  BY IdsHandedOut DEF Sound
<1>4. \A k \in DOMAIN r.ins : r.ins[k] \in ReadIds
  <2>1. \A k \in DOMAIN r.ins :
          \/ r.ins[k] \in StoredBy(stored)
          \/ \E i \in 1..(j - 1) : transforms[i].out = r.ins[k]
    BY DEF Sound, Dense, InOrder
  <2>2. j - 1 = Len(log)
    BY <1>2
  <2> QED
    BY <1>2, <2>1, <2>2 DEF ReadIds, StoredBy
<1>5. r.out \notin ReadIds
  <2>1. \A i \in 1..storedRead : i \in DOMAIN stored
    BY <1>2
  <2>2. \A i \in 1..Len(log) : i \in DOMAIN transforms /\ i # j
    BY <1>1, <1>2
  <2> QED
    BY <2>1, <2>2 DEF Sound, FilledOnce, ReadIds
<1>6. /\ \A k \in DOMAIN r.ins : r.ins[k] \in Map!InputSlots
      /\ r.out \in Map!OutputSlots
  BY <1>1, <1>3, <1>4, <1>5 DEF Map!InputSlots, Map!OutputSlots, Map!Defined, Map!Undefined
<1>7. Given(r) = Taken(m, r)
  BY <1>1, <1>3, <1>4 DEF Given, Taken
<1>8. Passes(m, r)
  BY DEF Sound
<1>9. Acceptable(r)
  <2>1. \A k \in DOMAIN r.ins : slots[r.ins[k]].width = m[r.ins[k]].width
    BY <1>1, <1>3, <1>4
  <2>2. /\ Len(r.ins) = Map!Arity(r.id)
        /\ Map!AcceptsHeader(r.id, r.private)
        /\ \A k \in DOMAIN r.ins : Map!AcceptsWidth(r.id, k, r.private, slots[r.ins[k]].width)
        /\ CodecAccepts(r, Given(r))
    BY <1>7, <1>8, <2>1 DEF Passes
  <2> QED
    BY <1>6, <2>2 DEF Acceptable
<1> QED
  BY <1>3, <1>5, <1>7, <1>9

\* A record fills the slot nobody has filled with what the plan says.
LEMMA ExecuteExplained ==
  ASSUME PlanInv, ReadInv, NEW m, ExplainedBy(m), ExecuteTransform
  PROVE  ExplainedBy(m)'
<1> DEFINE j == Len(log) + 1
           r == NextRecord
           o == r.out
           full == IsFull(Restored(r, Given(r)))
<1>1. /\ status = "reading" /\ storedRead = header.stored /\ Len(log) < header.transforms
      /\ PlanMeans(m) /\ ReadMeans(m) /\ UNCHANGED planVars
  BY DEF ExecuteTransform, ExplainedBy
<1>2. /\ phase = "planned" /\ storedRead = Len(stored) /\ header.transforms = Len(transforms)
      /\ Len(log) \in 0..Len(transforms)
      /\ slots \in [0..(nextId - 1) -> Map!Slot] /\ DOMAIN contents = ReadIds
      /\ Sound(m, stored, transforms, nextId)
      /\ \A s \in 0..(nextId - 1) :
           /\ slots[s].defined <=> s \in ReadIds
           /\ s \notin ReadIds => slots[s].width = 0
           /\ s \in ReadIds => /\ contents[s] = m[s].payload
                               /\ slots[s].width = m[s].width
                               /\ slots[s].full <=> IsFull(contents[s])
  BY <1>1 DEF ReadMeans, PlanMeans
<1>3. /\ transforms \in Seq(Transform) /\ nextId \in Nat
      /\ Len(stored) \in Nat /\ Len(transforms) \in Nat /\ Len(log) \in Nat
      /\ DOMAIN transforms = 1..Len(transforms)
  BY <1>2 DEF PlanInv, Dense
<1>4. j \in DOMAIN transforms /\ r = transforms[j]
  BY <1>1, <1>2, <1>3 DEF NextRecord
<1>5. /\ Acceptable(r) /\ Given(r) = Taken(m, r)
      /\ \A k \in DOMAIN r.ins : r.ins[k] \in 0..(nextId - 1)
      /\ o \in 0..(nextId - 1) /\ o \notin ReadIds
  <2> HIDE DEF r
  <2> QED
    BY <1>1, <1>2, <1>4, NextIsAcceptable
<1>6. /\ slots' = Map!SlotsAfter(r.ins, o, Map!OutputWidth(r.id, r.private), full)
      /\ log' = Append(log, [id |-> r.id, input |-> r.ins[1], output |-> o])
      /\ contents' = Filled(o, Restored(r, Given(r)))
      /\ UNCHANGED <<status, header, storedRead>>
  BY <1>5 DEF ExecuteTransform, Map!ExecuteRecord
<1>7. m[o] = [payload |-> Restored(r, Given(r)), width |-> Map!OutputWidth(r.id, r.private)]
  <2>1. m[o] = Result(m, r)
    BY <1>2, <1>4 DEF Sound
  <2> HIDE DEF r, o
  <2> QED
    BY <1>5, <2>1 DEF Result
<1>8. /\ phase' = phase /\ stored' = stored /\ transforms' = transforms
      /\ nextId' = nextId /\ final' = final /\ chunkLen' = chunkLen
  BY <1>1 DEF planVars, planned
<1>9. /\ Len(log') = j /\ log'[j] = [id |-> r.id, input |-> r.ins[1], output |-> o]
      /\ \A i \in 1..Len(log) : log'[i] = log[i]
  <2> DEFINE entry == [id |-> r.id, input |-> r.ins[1], output |-> o]
  <2>1. log' \in Seq(Map!LogEntry) /\ log \in Seq(Map!LogEntry)
    <3>1. Acceptable(NextRecord)
      BY <1>5
    <3> QED
      BY <3>1, ExecuteIsMapStep DEF ReadInv
  <2>2. log \in Seq({log[i] : i \in DOMAIN log} \cup {entry})
    BY <2>1
  <2> HIDE DEF entry
  <2>3. log' = Append(log, entry)
    BY <1>6 DEF entry
  <2> QED
    BY <2>2, <2>3, Appended DEF entry
<1>10. ReadIds' = ReadIds \cup {o}
  <2>1. \A k : k \in 1..j <=> k \in 1..Len(log) \/ k = j
    BY <1>3
  <2>2. storedRead' = storedRead
    BY <1>6
  <2> HIDE DEF j, r, full
  <2> QED
    BY <1>4, <1>8, <1>9, <2>1, <2>2 DEF ReadIds
<1> HIDE DEF r, full
<1>11. /\ \A s \in 0..(nextId - 1) :
            /\ slots'[s].defined <=> slots[s].defined \/ s = o
            /\ s # o => slots'[s].width = slots[s].width /\ slots'[s].full = slots[s].full
            /\ slots[s].used => slots'[s].used
            /\ (\E k \in DOMAIN r.ins : r.ins[k] = s) => slots'[s].used
       /\ slots'[o].width = Map!OutputWidth(r.id, r.private) /\ slots'[o].full = full
  BY <1>2, <1>5, <1>6 DEF Map!SlotsAfter
<1>12. slots' \in [0..(nextId' - 1) -> Map!Slot]
  <2>1. Map!OutputWidth(r.id, r.private) \in Width \cup {0}
    <3>1. m[o] \in Known
      BY <1>2, <1>5 DEF Sound, Explanations
    <3>2. Map!OutputWidth(r.id, r.private) \in {0, 1, 2, 4}
      BY <1>7, <3>1 DEF Known
    <3> QED
      BY <3>2, ComposedAssumption DEF Map!MapAssumption
  <2>2. full \in BOOLEAN
    BY DEF full, IsFull
  <2> HIDE DEF o
  <2> QED
    BY <1>2, <1>6, <1>8, <2>1, <2>2 DEF Map!SlotsAfter, Map!Slot, Map!NoWidth
<1>13. /\ DOMAIN contents' = ReadIds \cup {o} /\ contents'[o] = m[o].payload
       /\ \A s \in ReadIds : contents'[s] = contents[s]
  BY <1>2, <1>5, <1>6, <1>7 DEF Filled
<1>14. full <=> IsFull(m[o].payload)
  BY <1>7 DEF full
<1>15. slots'[o].width = m[o].width
  BY <1>7, <1>11
<1> HIDE DEF o
<1>16. \A s \in 0..(nextId - 1) :
         /\ slots'[s].defined <=> s \in ReadIds'
         /\ s \notin ReadIds' => slots'[s].width = 0
         /\ s \in ReadIds' => /\ contents'[s] = m[s].payload
                              /\ slots'[s].width = m[s].width
                              /\ slots'[s].full <=> IsFull(contents[s])'
  <2>1. \A p : IsFull(p)' <=> IsFull(p)
    BY <1>8 DEF IsFull
  <2> SUFFICES ASSUME NEW s \in 0..(nextId - 1)
               PROVE  /\ slots'[s].defined <=> s \in ReadIds'
                      /\ s \notin ReadIds' => slots'[s].width = 0
                      /\ s \in ReadIds' => /\ contents'[s] = m[s].payload
                                           /\ slots'[s].width = m[s].width
                                           /\ slots'[s].full <=> IsFull(contents'[s])
    BY <2>1
  <2>2. CASE s = o
    BY <1>10, <1>11, <1>13, <1>14, <1>15, <2>2
  <2>3. CASE s # o
    BY <1>2, <1>10, <1>11, <1>13, <2>3
  <2> QED
    BY <2>2, <2>3
<1>17. \A i \in 1..Len(log') :
         /\ log'[i] = [id |-> transforms[i].id, input |-> transforms[i].ins[1],
                       output |-> transforms[i].out]
         /\ \A k \in DOMAIN transforms[i].ins : slots'[transforms[i].ins[k]].used
  <2> SUFFICES ASSUME NEW i \in 1..Len(log')
               PROVE  /\ log'[i] = [id |-> transforms[i].id, input |-> transforms[i].ins[1],
                                    output |-> transforms[i].out]
                      /\ \A k \in DOMAIN transforms[i].ins : slots'[transforms[i].ins[k]].used
    OBVIOUS
  <2>1. i \in 1..Len(log) \/ i = j
    BY <1>3, <1>9
  <2>2. CASE i = j
    BY <1>4, <1>5, <1>9, <1>11, <2>2 DEF o
  <2>3. CASE i \in 1..Len(log)
    <3>1. i \in DOMAIN transforms
      BY <1>2, <1>3, <2>3
    <3>2. \A k \in DOMAIN transforms[i].ins : transforms[i].ins[k] \in 0..(nextId - 1)
      BY <1>2, <3>1, IdsHandedOut DEF Sound
    <3> QED
      BY <1>1, <1>9, <1>11, <2>3, <3>2 DEF ReadMeans
  <2> QED
    BY <2>1, <2>2, <2>3
<1>18. /\ phase' = "planned" /\ DOMAIN contents' = ReadIds'
       /\ storedRead' = Len(stored) /\ storedRead' \in 0..Len(stored)
       /\ Len(log') \in 0..Len(transforms)
  BY <1>2, <1>3, <1>4, <1>6, <1>8, <1>9, <1>10, <1>13
<1>19. header' = [slots |-> nextId', stored |-> Len(stored)',
                transforms |-> Len(transforms)', final |-> final']
  BY <1>1, <1>6, <1>8 DEF ReadMeans
<1>20. ReadMeans(m)'
  BY <1>8, <1>12, <1>16, <1>17, <1>18, <1>19 DEF ReadMeans
<1> QED
  BY <1>1, <1>6, <1>20, MeansStay DEF ExplainedBy

\* What is said of the slots stays said while nothing is read.
LEMMA ReadingStays ==
  ASSUME UNCHANGED planVars, UNCHANGED <<header, slots, storedRead, log, contents>>,
         NEW m, ReadMeans(m)
  PROVE  ReadMeans(m)'
<1>1. /\ phase' = phase /\ stored' = stored /\ transforms' = transforms
      /\ nextId' = nextId /\ final' = final /\ chunkLen' = chunkLen
  BY DEF planVars, planned
<1>2. /\ header' = header /\ slots' = slots /\ storedRead' = storedRead /\ log' = log
      /\ contents' = contents
  OBVIOUS
<1>3. ReadIds' = ReadIds
  BY <1>1, <1>2 DEF ReadIds
<1>4. \A p : IsFull(p)' <=> IsFull(p)
  BY <1>1 DEF IsFull
<1> QED
  BY <1>1, <1>2, <1>3, <1>4 DEF ReadMeans

\* When every record was executed, every slot is filled.
LEMMA AllIdsRead ==
  ASSUME PlanInv, NEW m, ReadMeans(m),
         storedRead = Len(stored), Len(log) = Len(transforms)
  PROVE  ReadIds = 0..(nextId - 1)
<1>1. /\ DOMAIN stored = 1..storedRead /\ DOMAIN transforms = 1..Len(log)
      /\ StoredBy(stored) \cup FilledBy(transforms) = 0..(nextId - 1)
  BY DEF PlanInv, Dense
<1> QED
  BY <1>1 DEF ReadIds, StoredBy, FilledBy

\* The graph is valid and ends in the chunk.
LEMMA JudgeExplained ==
  ASSUME PlanInv, ReadInv, NEW m, ExplainedBy(m), Judge
  PROVE  ExplainedBy(m)'
<1>1. /\ status = "reading" /\ storedRead = header.stored /\ Len(log) = header.transforms
      /\ status' = IF Map!GraphIsValid /\ slots[header.final].full
                   THEN "accepted" ELSE "rejected"
      /\ UNCHANGED <<header, slots, storedRead, log, contents>> /\ UNCHANGED planVars
      /\ PlanMeans(m) /\ ReadMeans(m)
  BY DEF Judge, Map!Judge, ExplainedBy
<1>2. /\ phase = "planned" /\ storedRead = Len(stored) /\ Len(log) = Len(transforms)
      /\ header.final = final /\ DOMAIN slots = 0..(nextId - 1)
      /\ final \in 0..(nextId - 1) /\ m[final].payload = Rebuilt(ChunkOf, U32Width * chunkLen)
      /\ AllReadBut({final}, transforms, nextId) /\ EndsInFinal(transforms, final)
      /\ \A s \in 0..(nextId - 1) :
           /\ slots[s].defined <=> s \in ReadIds
           /\ s \in ReadIds => contents[s] = m[s].payload /\ (slots[s].full <=> IsFull(contents[s]))
      /\ \A j \in 1..Len(log) :
           /\ log[j] = [id |-> transforms[j].id, input |-> transforms[j].ins[1],
                        output |-> transforms[j].out]
           /\ \A k \in DOMAIN transforms[j].ins : slots[transforms[j].ins[k]].used
  BY <1>1 DEF ReadMeans, PlanMeans
<1>3. ReadIds = 0..(nextId - 1)
  BY <1>1, <1>2, AllIdsRead
<1>4. DOMAIN transforms = 1..Len(log) /\ DOMAIN log = 1..Len(log)
  <2>1. log \in Seq(Map!LogEntry)
    BY DEF ReadInv
  <2> QED
    BY <1>2, <2>1 DEF PlanInv, Dense
<1>5. Map!EverySlotDefined
  BY <1>2, <1>3 DEF Map!EverySlotDefined
<1>6. Map!EverySlotUsed
  BY <1>2, <1>4 DEF Map!EverySlotUsed, AllReadBut
<1>7. PICK f \in DOMAIN transforms, k \in DOMAIN transforms :
        /\ \A j \in DOMAIN transforms : transforms[j].id = "field_lz" <=> j = f
        /\ transforms[k].out = final
        /\ \/ k = f
           \/ transforms[k].id = "delta_int" /\ transforms[k].ins[1] = transforms[f].out
  BY <1>2 DEF EndsInFinal
<1>8. Map!FieldLzEntries = {f}
  BY <1>2, <1>4, <1>7, SMTT(30) DEF Map!FieldLzEntries
<1>9. Map!ValidFinal
  <2>1. Map!Cardinality(Map!FieldLzEntries) = 1
    <3>1. Map!Cardinality({f}) = Cardinality({f})
      BY DEF Map!Cardinality, Cardinality
    <3> QED
      BY <1>8, <3>1, FS_Singleton
  <2>2. /\ log[k].output = header.final
        /\ \/ log[k].id = "field_lz"
           \/ log[k].id = "delta_int" /\ log[k].input = log[f].output
    BY <1>2, <1>4, <1>7
  <2>3. k \in DOMAIN log /\ f \in Map!FieldLzEntries
    BY <1>4, <1>7, <1>8
  <2> QED
    BY <2>1, <2>2, <2>3 DEF Map!ValidFinal
<1>10. slots[header.final].full
  BY <1>2, <1>3 DEF IsFull, Rebuilt
<1>11. status' = "accepted"
  BY <1>1, <1>5, <1>6, <1>9, <1>10 DEF Map!GraphIsValid
<1>12. /\ phase' = phase /\ stored' = stored /\ transforms' = transforms
       /\ nextId' = nextId /\ final' = final /\ chunkLen' = chunkLen
  BY <1>1 DEF planVars, planned
<1>13. ReadMeans(m)'
  BY <1>1, <1>12, ReadingStays
<1> QED
  BY <1>1, <1>2, <1>11, <1>12, <1>13, MeansStay DEF ExplainedBy

\* Every step of the two functions leaves a plan that explains its ids, read
\* back as far as the decoder came.
LEMMA ExplainedNext ==
  ASSUME PlanInv, ReadInv, PlanExplained, [Next]_vars
  PROVE  PlanExplained'
<1>1. PICK m : ExplainedBy(m)
  BY DEF PlanExplained
<1>2. CASE Plan
  <2>1. /\ PlanStep /\ PlanMeans(m)
        /\ status' = status /\ contents' = contents /\ storedRead' = storedRead /\ log' = log
    BY <1>1, <1>2 DEF Plan, ExplainedBy, mapVars
  <2>2. status = "header" /\ DOMAIN contents = {} /\ storedRead = 0 /\ log = <<>>
    <3>1. phase # "planned"
      BY <2>1 DEF PlanStep, PlanDictionary, PlanSplit, AppendLane, CloseLanes,
                  PlanRawLiterals, AppendRaw, CloseGraph
    <3> QED
      BY <1>1, <3>1 DEF ExplainedBy, ReadMeans
  <2>3. PICK v : PlanMeans(v)'
    BY <2>1, PlanStepExplained
  <2>4. ExplainedBy(v)'
    BY <2>1, <2>2, <2>3 DEF ExplainedBy
  <2> QED
    BY <2>4 DEF PlanExplained
<1>3. CASE ReadHeader
  BY <1>1, <1>3, HeaderExplained DEF PlanExplained
<1>4. CASE ReadStored
  BY <1>1, <1>4, StoredExplained DEF PlanExplained
<1>5. CASE ExecuteTransform
  BY <1>1, <1>5, ExecuteExplained DEF PlanExplained
<1>6. CASE Judge
  BY <1>1, <1>6, JudgeExplained DEF PlanExplained
<1>7. CASE Returned \/ UNCHANGED vars
  <2>1. /\ UNCHANGED planVars /\ UNCHANGED <<header, slots, storedRead, log, contents>>
        /\ status' = status
    BY <1>7 DEF Returned, vars, mapVars
  <2>2. /\ stored' = stored /\ transforms' = transforms
    BY <2>1 DEF planVars
  <2>3. ReadMeans(m) => ReadMeans(m)'
    BY <2>1, ReadingStays
  <2>4. ExplainedBy(m)'
    BY <1>1, <2>1, <2>2, <2>3, MeansStay DEF ExplainedBy
  <2> QED
    BY <2>4 DEF PlanExplained
<1> QED
  BY <1>2, <1>3, <1>4, <1>5, <1>6, <1>7 DEF Next

-----------------------------------------------------------------------------
\* Theorems

\* Composed with the decoder, the planner does what it does alone.
THEOREM PlannerUndisturbed == Spec => PlanSpec
<1>1. Init => PlanInit
  BY DEF Init
<1>2. [Next]_vars => [PlanStep]_planVars
  BY DEF Next, vars, Plan, ReadHeader, ReadStored, ExecuteTransform, Judge, Returned
<1> QED
  BY <1>1, <1>2, PTL DEF Spec, PlanSpec

\* The strengthened invariant holds in every state of every plan.
THEOREM PlanInvariant == Spec => []PlanInv
<1>1. PlanSpec => []PlanInv
  <2>1. PlanInit => PlanInv
    BY PlanInvInit
  <2>2. PlanInv /\ [PlanStep]_planVars => PlanInv'
    BY PlanInvNext
  <2> QED
    BY <2>1, <2>2, PTL DEF PlanSpec
<1> QED
  BY <1>1, PlannerUndisturbed, PTL

\* Counters, lists and their entries keep their shapes, and the ids listed as
\* lanes and as FieldLZ inputs were handed out.
THEOREM PlanTypes == Spec => []PlanTypeOK
<1>1. PlanInv => PlanTypeOK
  BY DEF PlanInv
<1> QED
  BY <1>1, PlanInvariant, PTL

\* Through every route, for every chunk: each id below the counter belongs to
\* exactly one stored stream or transform output.
THEOREM PlanIdsDense == Spec => []StreamIdsAreDense
<1>1. PlanInv => StreamIdsAreDense
  BY DEF PlanInv, Dense, StoredBy, FilledBy, StreamIdsAreDense, StoredIds, OutputIds
<1> QED
  BY <1>1, PlanInvariant, PTL

\* No record of a plan reads a stream that is not stored or restored by then:
\* the decoder's "input must be defined" never fails.
THEOREM PlanRecordsInOrder == Spec => []RecordsInDecodeOrder
<1>1. PlanInv => RecordsInDecodeOrder
  BY DEF PlanInv, Dense, InOrder, StoredBy, RecordsInDecodeOrder, StoredIds
<1> QED
  BY <1>1, PlanInvariant, PTL

\* Reading back what was planned is one of the runs of decode_chunk_encoding:
\* the composition implements DecodingMap, and whatever is proved of accepted
\* decoding maps is true of the maps the encoder writes.
THEOREM PlanIsDecodingMap == Spec => Map!Spec
<1>1. Init => Map!Init /\ ReadInv
  BY DEF Init, Map!Init, ReadInv
<1>2. PlanInv /\ ReadInv /\ [Next]_vars => [Map!Next]_(Map!vars) /\ ReadInv'
  BY StepIsMapStep
<1> QED
  BY <1>1, <1>2, PlanInvariant, PTL DEF Spec, Map!Spec

\* In every state the plan explains the ids it handed out, and the decoder is part
\* of the way through it with what it explains in its slots.
THEOREM PlanExplains == Spec => []PlanExplained
<1>1. Init => PlanExplained /\ ReadInv
  <2>1. ASSUME Init PROVE PlanExplained /\ ReadInv
    <3>1. PICK v : PlanMeans(v)
      BY <2>1, InitExplained DEF Init
    <3>2. ExplainedBy(v)
      BY <2>1, <3>1 DEF ExplainedBy, Init, Map!Init
    <3> QED
      BY <2>1, <3>2 DEF PlanExplained, ReadInv, Init, Map!Init
  <2> QED
    BY <2>1
<1>2. PlanInv /\ ReadInv /\ PlanExplained /\ [Next]_vars => PlanExplained' /\ ReadInv'
  BY ExplainedNext, StepIsMapStep
<1> QED
  BY <1>1, <1>2, PlanInvariant, PTL DEF Spec

\* Whatever routes were taken, for every chunk: nothing the planner writes is
\* refused, no codec is given a stream that is not its own, and the map is
\* accepted with the chunk in its final slot.
THEOREM PlanDecoded == Spec => []PlanIsDecoded
<1>1. PlanInv /\ PlanExplained => PlanIsDecoded
  <2> SUFFICES ASSUME PlanInv, PlanExplained
               PROVE  PlanIsDecoded
    OBVIOUS
  <2>1. PICK m : ExplainedBy(m)
    BY DEF PlanExplained
  <2>2. status \in {"header", "reading", "accepted"} /\ Sound(m, stored, transforms, nextId)
    BY <2>1 DEF ExplainedBy, PlanMeans
  <2>3. \A s \in DOMAIN contents : contents[s].means # Garbage
    <3>1. CASE status = "header"
      BY <2>1, <3>1 DEF ExplainedBy
    <3>2. CASE status # "header"
      <4>1. ReadMeans(m)
        BY <2>1, <3>2 DEF ExplainedBy
      <4>2. \A s \in DOMAIN contents : s \in 0..(nextId - 1) /\ contents[s] = m[s].payload
        <5>1. /\ storedRead \in 0..Len(stored) /\ Len(log) \in 0..Len(transforms)
              /\ DOMAIN contents = ReadIds
          BY <4>1 DEF ReadMeans
        <5>2. /\ \A i \in 1..storedRead : i \in DOMAIN stored
              /\ \A i \in 1..Len(log) : i \in DOMAIN transforms
          BY <5>1 DEF PlanInv, Dense
        <5>3. \A s \in ReadIds : s \in 0..(nextId - 1)
          BY <2>2, <5>2, IdsHandedOut DEF ReadIds, Sound
        <5> QED
          BY <4>1, <5>1, <5>3 DEF ReadMeans
      <4>3. \A s \in 0..(nextId - 1) : m[s] \in Known
        BY <2>2 DEF Sound, Explanations
      <4> QED
        BY <4>2, <4>3 DEF Known
    <3> QED
      BY <3>1, <3>2
  <2>4. status = "accepted" => contents[final] = Rebuilt(ChunkOf, U32Width * chunkLen)
    <3> SUFFICES ASSUME status = "accepted"
                 PROVE  contents[final] = Rebuilt(ChunkOf, U32Width * chunkLen)
      OBVIOUS
    <3>1. /\ ReadMeans(m) /\ PlanMeans(m)
          /\ storedRead = Len(stored) /\ Len(log) = Len(transforms)
      BY <2>1 DEF ExplainedBy
    <3>2. ReadIds = 0..(nextId - 1)
      BY <3>1, AllIdsRead
    <3> QED
      BY <3>1, <3>2 DEF ReadMeans, PlanMeans
  <2> QED
    BY <2>2, <2>3, <2>4 DEF PlanIsDecoded
<1> QED
  BY <1>1, PlanInvariant, PlanExplains, PTL

=============================================================================
