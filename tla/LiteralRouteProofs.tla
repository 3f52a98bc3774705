-------------------------- MODULE LiteralRouteProofs --------------------------
(***************************************************************************)
(* Proofs about LiteralDict and LiteralRoute, for every literal stream,    *)
(* every number of codes and every limit of the heuristics.                *)
(***************************************************************************)
EXTENDS LiteralRoute, TLAPS

\* The strengthening of CodesNameLiterals that every step preserves: the
\* shapes of the variables, and that a finished table covers the stream.
DictInv ==
  /\ source \in Literals
  /\ values \in Seq(Value)
  /\ codes \in Seq(Nat)
  /\ building \in {"scanning", "candidate", "none"}
  /\ CodesNameLiterals
  /\ building = "candidate" => Len(codes) = Len(source)

-----------------------------------------------------------------------------
\* Lemmas about one step of the builder

\* What Append does to a sequence, element by element.
LEMMA Appended ==
  ASSUME NEW S, NEW s \in Seq(S), NEW x \in S
  PROVE  /\ Append(s, x) \in Seq(S)
         /\ Len(Append(s, x)) = Len(s) + 1
         /\ \A k \in 1..Len(s) : Append(s, x)[k] = s[k]
         /\ Append(s, x)[Len(s) + 1] = x
  OBVIOUS

\* An index below the number of codes is not cut off.
LEMMA CodeFits ==
  ASSUME NEW span \in Nat \ {0}, NEW i \in Nat, i < span
  PROVE  i % span = i
  OBVIOUS

\* A literal that is in the table gets the code of its entry.
LEMMA CodeKnownKeeps ==
  ASSUME DictInv, CodeKnown
  PROVE  DictInv'
<1> DEFINE n == Len(codes)
<1>0. /\ n \in Nat /\ n < Len(source) /\ Len(source) \in Nat
      /\ building = "scanning" /\ building' = building
      /\ source' = source /\ values' = values /\ width' = width
  BY DictAssumption DEF CodeKnown, Scanning, DictInv
<1>1. PICK i \in DOMAIN values :
        values[i] = source[n + 1] /\ codes' = Append(codes, Code(i - 1))
  BY DEF CodeKnown, KnownAt, NextLiteral
<1>2. i \in 1..Len(values) /\ Len(values) \in Nat
  BY <1>1 DEF DictInv
<1>3. /\ CodeSpan[width] \in Nat \ {0}
      /\ Len(values) <= CodeSpan[width]
  BY DictAssumption DEF DictInv, CodesNameLiterals
<1>4. Code(i - 1) = i - 1
  <2>1. i - 1 \in Nat /\ i - 1 < CodeSpan[width]
    BY <1>2, <1>3
  <2> QED
    BY <2>1, <1>3, CodeFits DEF Code
<1>5. /\ codes' \in Seq(Nat)
      /\ Len(codes') = n + 1
      /\ \A k \in 1..n : codes'[k] = codes[k]
      /\ codes'[n + 1] = i - 1
  <2>1. i - 1 \in Nat /\ codes \in Seq(Nat)
    BY <1>2 DEF DictInv
  <2> QED
    BY <1>1, <1>4, <2>1, Appended
<1>6. DOMAIN codes = 1..n /\ DOMAIN codes' = 1..(n + 1)
  BY <1>5 DEF DictInv
<1>7. ASSUME NEW k \in DOMAIN codes'
      PROVE  codes'[k] < Len(values) /\ values[codes'[k] + 1] = source[k]
  <2>1. CASE k = n + 1
    BY <2>1, <1>1, <1>2, <1>5
  <2>2. CASE k \in 1..n
    BY <2>2, <1>5, <1>6 DEF DictInv, CodesNameLiterals
  <2> QED
    BY <2>1, <2>2, <1>6, <1>0
<1>8. ASSUME NEW j \in DOMAIN values
      PROVE  \E k \in DOMAIN codes' : source[k] = values[j]
  <2>1. PICK k \in DOMAIN codes : source[k] = values[j]
    BY DEF DictInv, CodesNameLiterals
  <2>2. k \in DOMAIN codes'
    BY <1>6, <1>0
  <2> QED
    BY <2>1, <2>2
<1>9. CodesNameLiterals'
  <2>1. /\ width \in {1, 2}
        /\ Len(values) <= CodeSpan[width]
        /\ \A a, b \in DOMAIN values : values[a] = values[b] => a = b
    BY DEF DictInv, CodesNameLiterals
  <2>2. Len(codes') <= Len(source)
    BY <1>0, <1>5
  <2> QED
    BY <2>1, <2>2, <1>0, <1>7, <1>8 DEF CodesNameLiterals
<1> QED
  BY <1>0, <1>5, <1>9 DEF DictInv

\* A literal that is not becomes the next entry of the table.
LEMMA CodeNewKeeps ==
  ASSUME DictInv, CodeNew
  PROVE  DictInv'
<1> DEFINE n == Len(codes)
           m == Len(values)
<1>0. /\ n \in Nat /\ n < Len(source) /\ Len(source) \in Nat
      /\ building = "scanning" /\ building' = building
      /\ source' = source /\ width' = width
  BY DictAssumption DEF CodeNew, Scanning, DictInv
<1>1. /\ codes' = Append(codes, Code(m))
      /\ values' = Append(values, source[n + 1])
      /\ \A j \in DOMAIN values : values[j] # source[n + 1]
      /\ m # CodeSpan[width]
  BY DEF CodeNew, KnownAt, NextLiteral, TableIsFull
<1>2. /\ CodeSpan[width] \in Nat \ {0}
      /\ m \in Nat
      /\ m < CodeSpan[width]
  <2>1. CodeSpan[width] \in Nat \ {0} /\ m <= CodeSpan[width]
    BY DictAssumption DEF DictInv, CodesNameLiterals
  <2>2. m \in Nat
    BY DEF DictInv
  <2> QED
    BY <1>1, <2>1, <2>2
<1>3. Code(m) = m
  BY <1>2, CodeFits DEF Code
<1>4. source[n + 1] \in Value
  <2>1. source \in Seq(Value) /\ n + 1 \in 1..Len(source)
    BY <1>0, DictAssumption DEF DictInv
  <2> QED
    BY <2>1
<1>5. /\ codes' \in Seq(Nat)
      /\ Len(codes') = n + 1
      /\ \A k \in 1..n : codes'[k] = codes[k]
      /\ codes'[n + 1] = m
  BY <1>1, <1>2, <1>3, Appended DEF DictInv
<1>6. /\ values' \in Seq(Value)
      /\ Len(values') = m + 1
      /\ \A j \in 1..m : values'[j] = values[j]
      /\ values'[m + 1] = source[n + 1]
  BY <1>1, <1>4, Appended DEF DictInv
<1>7. /\ DOMAIN codes = 1..n /\ DOMAIN codes' = 1..(n + 1)
      /\ DOMAIN values = 1..m /\ DOMAIN values' = 1..(m + 1)
  BY <1>5, <1>6 DEF DictInv
<1>8. ASSUME NEW k \in DOMAIN codes'
      PROVE  codes'[k] < Len(values') /\ values'[codes'[k] + 1] = source[k]
  <2>1. CASE k = n + 1
    BY <2>1, <1>2, <1>5, <1>6
  <2>2. CASE k \in 1..n
    <3>1. codes[k] \in Nat /\ codes[k] < m /\ values[codes[k] + 1] = source[k]
      BY <2>2, <1>7 DEF DictInv, CodesNameLiterals
    <3>2. codes[k] + 1 \in 1..m
      BY <3>1, <1>2
    <3> QED
      BY <3>1, <3>2, <2>2, <1>2, <1>5, <1>6
  <2> QED
    BY <2>1, <2>2, <1>7, <1>0
<1>9. ASSUME NEW j \in DOMAIN values'
      PROVE  \E k \in DOMAIN codes' : source[k] = values'[j]
  <2>1. CASE j = m + 1
    <3>1. n + 1 \in DOMAIN codes'
      BY <1>7, <1>0
    <3> QED
      BY <2>1, <3>1, <1>6
  <2>2. CASE j \in 1..m
    <3>1. PICK k \in DOMAIN codes : source[k] = values[j]
      BY <2>2, <1>7 DEF DictInv, CodesNameLiterals
    <3>2. k \in DOMAIN codes'
      BY <1>7, <1>0
    <3> QED
      BY <2>2, <3>1, <3>2, <1>6
  <2> QED
    BY <2>1, <2>2, <1>7, <1>2
<1>10. ASSUME NEW i \in DOMAIN values', NEW j \in DOMAIN values', values'[i] = values'[j]
       PROVE  i = j
  <2>1. CASE i \in 1..m /\ j \in 1..m
    BY <2>1, <1>6, <1>7, <1>10 DEF DictInv, CodesNameLiterals
  <2>2. CASE i = m + 1 /\ j \in 1..m
    BY <2>2, <1>1, <1>6, <1>7, <1>10
  <2>3. CASE i \in 1..m /\ j = m + 1
    BY <2>3, <1>1, <1>6, <1>7, <1>10
  <2> QED
    BY <2>1, <2>2, <2>3, <1>7, <1>2
<1>11. Len(values') <= CodeSpan[width] /\ Len(codes') <= Len(source)
  BY <1>0, <1>2, <1>5, <1>6
<1>12. CodesNameLiterals'
  <2>1. width \in {1, 2}
    BY DEF DictInv, CodesNameLiterals
  <2> QED
    BY <2>1, <1>0, <1>8, <1>9, <1>10, <1>11 DEF CodesNameLiterals
<1> QED
  BY <1>0, <1>5, <1>6, <1>12 DEF DictInv

\* A call of the builder starts over.
LEMMA EmptyTable ==
  ASSUME source \in Literals, width \in {1, 2}, values = <<>>, codes = <<>>,
         building = "scanning"
  PROVE  DictInv
<1>1. source \in Seq(Value) /\ Len(source) \in Nat
  BY DictAssumption
<1>2. CodeSpan[width] \in Nat
  BY DictAssumption
<1> QED
  BY <1>1, <1>2 DEF DictInv, CodesNameLiterals

\* Every step of the builder keeps the invariant.
LEMMA BuildStepKeeps ==
  ASSUME DictInv, BuildStep
  PROVE  DictInv'
<1>1. CASE CodeKnown
  BY <1>1, CodeKnownKeeps
<1>2. CASE CodeNew
  BY <1>2, CodeNewKeeps
<1>3. CASE GiveUp
  BY <1>3 DEF GiveUp, DictInv, CodesNameLiterals
<1>4. CASE Complete
  BY <1>4 DEF Complete, DictInv, CodesNameLiterals
<1> QED
  BY <1>1, <1>2, <1>3, <1>4 DEF BuildStep

\* So does a step that leaves the builder alone.
LEMMA DictUnchanged ==
  ASSUME DictInv, UNCHANGED dictVars
  PROVE  DictInv'
  BY DEF DictInv, CodesNameLiterals, dictVars

-----------------------------------------------------------------------------
\* The routes

\* What the literal route adds: a dictionary is taken only when complete.
RouteInv ==
  /\ DictInv
  /\ route \in {"choosing", "dict", "split", "raw"}
  /\ route = "dict" => building = "candidate"
  /\ restored \in {Pending, source}

\* A complete dictionary decodes to the literals it was built from.
LEMMA DictionaryInverts ==
  ASSUME DictInv, building = "candidate"
  PROVE  Decode(values, codes) = source
<1>1. /\ codes \in Seq(Nat) /\ source \in Seq(Value)
      /\ Len(codes) = Len(source)
  BY DictAssumption DEF DictInv
<1>2. DOMAIN codes = DOMAIN source /\ source = [k \in DOMAIN source |-> source[k]]
  BY <1>1
<1>3. \A k \in DOMAIN codes : values[codes[k] + 1] = source[k]
  BY DEF DictInv, CodesNameLiterals
<1> QED
  BY <1>2, <1>3 DEF Decode

\* Splitting literals into byte lanes and joining the lanes is the identity.
LEMMA SplitInverts ==
  ASSUME source \in Literals
  PROVE  DecodeSplit(EncodeSplit(source)) = source
<1>1. source \in Seq(Value) /\ 1 \in 1..LaneCount
  BY DictAssumption, RouteAssumption
<1>2. /\ source = [i \in DOMAIN source |-> source[i]]
      /\ \A i \in DOMAIN source : source[i] \in [1..LaneCount -> Byte]
  BY <1>1, RouteAssumption
<1>3. DOMAIN EncodeSplit(source)[1] = DOMAIN source
  BY <1>1 DEF EncodeSplit
<1>4. \A lane \in 1..LaneCount : \A i \in DOMAIN source :
        EncodeSplit(source)[lane][i] = source[i][lane]
  BY DEF EncodeSplit
<1>5. \A i \in DOMAIN source :
        [lane \in 1..LaneCount |-> EncodeSplit(source)[lane][i]] = source[i]
  BY <1>2, <1>4
<1> QED
  BY <1>2, <1>3, <1>5 DEF DecodeSplit

\* Whatever the route, what is restored are the literals.
LEMMA RestoreReturnsSource ==
  ASSUME RouteInv, Restore
  PROVE  restored' = source
<1>1. CASE route = "dict"
  BY <1>1, DictionaryInverts DEF RouteInv, Restore
<1>2. CASE route = "split"
  BY <1>2, SplitInverts DEF RouteInv, DictInv, Restore
<1>3. CASE route = "raw"
  BY <1>3 DEF Restore
<1> QED
  BY <1>1, <1>2, <1>3 DEF RouteInv, Restore

\* The invariant holds at the start.
LEMMA RouteInvInit == Init => RouteInv
<1> SUFFICES ASSUME Init PROVE RouteInv
  OBVIOUS
<1>1. DictInv
  BY EmptyTable DEF Init, DictInit
<1> QED
  BY <1>1 DEF Init, RouteInv

\* Every step keeps it.
LEMMA RouteInvStep == RouteInv /\ [Next]_vars => RouteInv'
<1> SUFFICES ASSUME RouteInv, [Next]_vars PROVE RouteInv'
  OBVIOUS
<1>1. CASE Build
  <2>1. DictInv' /\ source' = source
    BY <1>1, BuildStepKeeps
       DEF RouteInv, Build, BuildStep, CodeKnown, CodeNew, GiveUp, Complete
  <2> QED
    BY <2>1, <1>1 DEF RouteInv, Build
<1>2. CASE TakeDictionary
  <2>1. DictInv'
    BY <1>2, DictUnchanged DEF RouteInv, TakeDictionary
  <2> QED
    BY <2>1, <1>2 DEF RouteInv, TakeDictionary, dictVars
<1>3. CASE TryWiderCodes
  <2>1. /\ source' \in Literals /\ width' \in {1, 2}
        /\ values' = <<>> /\ codes' = <<>> /\ building' = "scanning"
    BY <1>3 DEF RouteInv, DictInv, TryWiderCodes, CallBuild
  <2>2. DictInv'
    BY <2>1, DictAssumption DEF DictInv, CodesNameLiterals
  <2> QED
    BY <2>2, <1>3 DEF RouteInv, TryWiderCodes, CallBuild
<1>4. CASE PassDictionary
  <2>1. DictInv'
    BY <1>4, DictUnchanged DEF RouteInv, PassDictionary
  <2>2. route' \in {"split", "raw"} /\ restored' = restored /\ source' = source
    BY <1>4 DEF PassDictionary, dictVars
  <2> QED
    BY <2>1, <2>2 DEF RouteInv
<1>5. CASE Restore
  <2>1. DictInv'
    BY <1>5, DictUnchanged DEF RouteInv, Restore
  <2>2. restored' = source
    BY <1>5, RestoreReturnsSource
  <2> QED
    BY <2>1, <2>2, <1>5 DEF RouteInv, Restore, dictVars
<1>6. CASE UNCHANGED vars
  <2>1. DictInv'
    BY <1>6, DictUnchanged DEF RouteInv, vars
  <2> QED
    BY <2>1, <1>6 DEF RouteInv, vars, dictVars
<1> QED
  BY <1>1, <1>2, <1>3, <1>4, <1>5, <1>6 DEF Next, Returned

\* In every state of every call, with any number of codes: the codes name
\* the literals, the table has no duplicates and never outgrows the codes.
THEOREM CodesAreRight == Spec => []CodesNameLiterals
<1>1. Init => RouteInv
  BY RouteInvInit
<1>2. RouteInv /\ [Next]_vars => RouteInv'
  BY RouteInvStep
<1>3. RouteInv => CodesNameLiterals
  BY DEF RouteInv, DictInv
<1> QED
  BY <1>1, <1>2, <1>3, PTL DEF Spec

\* The literal routes implement a lossless codec: nothing but the literals
\* that went in ever comes back, whichever route was taken.
THEOREM RouteLossless == Spec => Codec!Spec
<1>1. Init => RouteInv
  BY RouteInvInit
<1>2. RouteInv /\ [Next]_vars => RouteInv'
  BY RouteInvStep
<1>3. Init => Codec!Init
  BY DEF Init, DictInit, Codec!Init
<1>4. RouteInv /\ [Next]_vars => [Codec!Next]_(Codec!codecVars)
  <2> SUFFICES ASSUME RouteInv, [Next]_vars
               PROVE  [Codec!Next]_(Codec!codecVars)
    OBVIOUS
  <2>1. CASE Restore
    <3>1. restored' = source
      BY <2>1, RestoreReturnsSource
    <3> QED
      BY <3>1, <2>1 DEF Restore, dictVars, Codec!Next, Codec!Return
  <2>2. CASE Build
    BY <2>2 DEF Build, BuildStep, CodeKnown, CodeNew, GiveUp, Complete, Codec!codecVars
  <2>3. CASE TakeDictionary \/ TryWiderCodes \/ PassDictionary \/ UNCHANGED vars
    BY <2>3 DEF TakeDictionary, TryWiderCodes, PassDictionary, CallBuild, vars,
                dictVars, Codec!codecVars
  <2> QED
    BY <2>1, <2>2, <2>3 DEF Next, Returned
<1> QED
  BY <1>1, <1>2, <1>3, <1>4, PTL DEF Spec, Codec!Spec

=============================================================================
