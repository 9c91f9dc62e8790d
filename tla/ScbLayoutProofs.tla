--------------------------- MODULE ScbLayoutProofs ---------------------------
(***************************************************************************)
(* Proofs that ctypes lays MorpheusScb and MorpheusHint out as the spec's  *)
(* tables say, and that verify_offsets passes, on every platform whose     *)
(* integer alignments are natural: a c_uint32 aligned to 1, 2 or 4 bytes,  *)
(* a c_uint64 to 1, 2, 4 or 8.                                             *)
(***************************************************************************)
EXTENDS ScbLayout, TLAPS

(* Every C integer is aligned to a power of two no larger than its size.   *)
NaturalAlignment ==
  \A p \in Platforms : p.u32 \in {1, 2, 4} /\ p.u64 \in {1, 2, 4, 8}

Tab(ci) == Normative[ci].t

(* The offset at which field j of class ci ends, per the normative table.  *)
EndOf(ci, j) == IF j = 0 THEN 0 ELSE Tab(ci)[j][1] + Tab(ci)[j][2]

(* The offsets of the first n fields of class ci, per the table.           *)
Prefix(ci, n) == [j \in 1..n |-> Tab(ci)[j][1]]

-----------------------------------------------------------------------------
(* The fields of MorpheusScb follow one another with no implicit padding:  *)
(* each starts where the table's previous field ends, on a multiple of its *)
(* size, and has the size the table gives.                                 *)
LEMMA ScbFieldFacts ==
  ASSUME NEW j \in 1..14
  PROVE  /\ ScbFields[j].ctype \in {"u32", "u64"}
         /\ FieldSize(ScbFields[j]) = ScbTable[j][2]
         /\ EndOf(1, j - 1) = ScbTable[j][1]
         /\ ScbFields[j].ctype = "u64" => ScbTable[j][1] % 8 = 0
         /\ ScbFields[j].ctype = "u32" => ScbTable[j][1] % 4 = 0
  BY DEF ScbFields, Field, FieldSize, CSize, ScbTable, EndOf, Tab, Normative

(* The same for MorpheusHint.                                              *)
LEMMA HintFieldFacts ==
  ASSUME NEW j \in 1..4
  PROVE  /\ HintFields[j].ctype \in {"u32", "u64"}
         /\ FieldSize(HintFields[j]) = HintTable[j][2]
         /\ EndOf(2, j - 1) = HintTable[j][1]
         /\ HintFields[j].ctype = "u64" => HintTable[j][1] % 8 = 0
         /\ HintFields[j].ctype = "u32" => HintTable[j][1] % 4 = 0
  BY DEF HintFields, Field, FieldSize, CSize, HintTable, EndOf, Tab, Normative

(* The two classes of the normative tables, both declared with _pack_ = 8. *)
LEMMA ClassFacts ==
  /\ Len(Classes) = 3
  /\ Classes[1].fields = ScbFields /\ Classes[2].fields = HintFields
  /\ Classes[1].pack = 8 /\ Classes[2].pack = 8
  /\ Len(ScbFields) = 14 /\ Len(HintFields) = 4
  /\ Tab(1) = ScbTable /\ Tab(2) = HintTable
  /\ Len(ScbTable) = 14 /\ Len(HintTable) = 4
  /\ Normative[1].size = 128 /\ Normative[2].size = 24
  /\ EndOf(1, 14) = 128 /\ EndOf(2, 4) = 24
  /\ \A j \in 1..14 : ScbTable[j][1] \in Nat
  /\ \A j \in 1..4 : HintTable[j][1] \in Nat
  BY DEF Classes, ScbFields, HintFields, Tab, Normative, ScbTable, HintTable,
         EndOf, Field

(* Rounding up to a power of two that already divides n leaves n alone.   *)
LEMMA AlignExact ==
  ASSUME NEW n \in Nat, NEW a \in {1, 2, 4, 8}, n % a = 0
  PROVE  AlignUp(n, a) = n
  <1>1. CASE a = 1 BY <1>1 DEF AlignUp
  <1>2. CASE a = 2 BY <1>2 DEF AlignUp
  <1>3. CASE a = 4 BY <1>3 DEF AlignUp
  <1>4. CASE a = 8 BY <1>4 DEF AlignUp
  <1>5. QED BY <1>1, <1>2, <1>3, <1>4

(* With natural alignment and _pack_ = 8, a field aligns as its C type     *)
(* does, and that alignment divides the field's table offset.              *)
LEMMA FieldAlignNatural ==
  ASSUME NaturalAlignment, plat \in Platforms,
         NEW c, c.pack = 8, NEW f, f.ctype \in {"u32", "u64"}
  PROVE  /\ FieldAlign(c, f) = plat[f.ctype]
         /\ FieldAlign(c, f) \in {1, 2, 4, 8}
         /\ f.ctype = "u32" => FieldAlign(c, f) \in {1, 2, 4}
  <1>1. plat.u32 \in {1, 2, 4} /\ plat.u64 \in {1, 2, 4, 8}
    BY DEF NaturalAlignment
  <1>2. QED
    BY <1>1 DEF FieldAlign

(* n divisible by 8 (or by 4) is divisible by every smaller power of two.  *)
LEMMA DivisibleDown ==
  ASSUME NEW n \in Nat
  PROVE  /\ n % 8 = 0 => \A a \in {1, 2, 4, 8} : n % a = 0
         /\ n % 4 = 0 => \A a \in {1, 2, 4} : n % a = 0
  OBVIOUS

(* ctypes places field j of class ci exactly at its table offset, and the  *)
(* field ends where the table says.                                        *)
LEMMA PlaceExact ==
  ASSUME NaturalAlignment, plat \in Platforms,
         NEW ci \in 1..2, NEW j \in 1..Len(Classes[ci].fields)
  PROVE  LET c == Classes[ci]
             f == c.fields[j]
         IN  /\ AlignUp(EndOf(ci, j - 1), FieldAlign(c, f)) = Tab(ci)[j][1]
             /\ Tab(ci)[j][1] + FieldSize(f) = EndOf(ci, j)
             /\ FieldAlign(c, f) \in {1, 2, 4, 8}
  <1> DEFINE c == Classes[ci]
             f == c.fields[j]
             o == Tab(ci)[j][1]
  <1>1. /\ c.pack = 8
        /\ f.ctype \in {"u32", "u64"}
        /\ FieldSize(f) = Tab(ci)[j][2]
        /\ EndOf(ci, j - 1) = o
        /\ f.ctype = "u64" => o % 8 = 0
        /\ f.ctype = "u32" => o % 4 = 0
        /\ o \in Nat
    <2>1. CASE ci = 1
      BY <2>1, ClassFacts, ScbFieldFacts
    <2>2. CASE ci = 2
      BY <2>2, ClassFacts, HintFieldFacts
    <2>3. QED
      BY <2>1, <2>2
  <1>2. FieldAlign(c, f) \in {1, 2, 4, 8} /\ o % FieldAlign(c, f) = 0
    BY <1>1, FieldAlignNatural, DivisibleDown
  <1>3. AlignUp(EndOf(ci, j - 1), FieldAlign(c, f)) = o
    BY <1>1, <1>2, AlignExact
  <1>4. o + FieldSize(f) = EndOf(ci, j)
    BY <1>1, j # 0 DEF EndOf
  <1>5. QED
    BY <1>2, <1>3, <1>4

(* The size ctypes gives a laid-out class: its table size, for any largest *)
(* alignment a power of two up to 8.                                       *)
LEMMA SizeExact ==
  ASSUME NEW ci \in 1..2, NEW a \in {1, 2, 4, 8}
  PROVE  AlignUp(EndOf(ci, Len(Classes[ci].fields)), a) = Normative[ci].size
  <1>1. CASE ci = 1
    <2>1. EndOf(ci, Len(Classes[ci].fields)) = 128 /\ Normative[ci].size = 128
      BY <1>1, ClassFacts
    <2>2. QED
      BY <2>1, AlignExact
  <1>2. CASE ci = 2
    <2>1. EndOf(ci, Len(Classes[ci].fields)) = 24 /\ Normative[ci].size = 24
      BY <1>2, ClassFacts
    <2>2. QED
      BY <2>1, AlignExact
  <1>3. QED
    BY <1>1, <1>2

(* Where each name verify_offsets looks up is declared in _fields_.        *)
ExpIdx == <<1, 2, 3, 4, 6, 7, 8, 9, 10, 12>>

(* The names of MorpheusScb's fields are distinct, so the field each entry *)
(* of the expected table names is the one at ExpIdx, and its table offset  *)
(* is the offset the entry expects.                                        *)
LEMMA ExpectedNamesUnique ==
  ASSUME NEW v \in 1..10
  PROVE  /\ ExpIdx[v] \in 1..14
         /\ ScbFields[ExpIdx[v]].name = Expected[v][1]
         /\ \A j \in 1..14 : ScbFields[j].name = Expected[v][1] => j = ExpIdx[v]
         /\ ScbTable[ExpIdx[v]][1] = Expected[v][2]
  BY DEF ExpIdx, ScbFields, Field, Expected, ScbTable

(* getattr(MorpheusScb, name).offset, once the class exists, is the table  *)
(* offset verify_offsets expects for every entry of its table.             *)
LEMMA OffsetOfExpected ==
  ASSUME NEW v \in 1..10, offsets[1] = Prefix(1, 14)
  PROVE  OffsetOf(1, Expected[v][1]) = Expected[v][2]
  <1> DEFINE J == CHOOSE j \in 1..Len(Classes[1].fields) :
                    Classes[1].fields[j].name = Expected[v][1]
  <1>1. Classes[1].fields = ScbFields /\ Len(ScbFields) = 14
    BY ClassFacts
  <1>2. J \in 1..14 /\ ScbFields[J].name = Expected[v][1]
    BY <1>1, ExpectedNamesUnique
  <1>3. J = ExpIdx[v]
    BY <1>2, ExpectedNamesUnique
  <1>4. offsets[1][ExpIdx[v]] = Expected[v][2]
    <2>1. ExpIdx[v] \in 1..14 /\ ScbTable[ExpIdx[v]][1] = Expected[v][2]
      BY ExpectedNamesUnique
    <2>2. Prefix(1, 14)[ExpIdx[v]] = Tab(1)[ExpIdx[v]][1]
      BY <2>1 DEF Prefix
    <2>3. QED
      BY <2>1, <2>2, ClassFacts
  <1>5. QED
    BY <1>3, <1>4 DEF OffsetOf

-----------------------------------------------------------------------------
(* The inductive invariant.  The classes are created in order; the ones    *)
(* already created have every field at its table offset and their table   *)
(* size; the one being created has its first k - 1 fields at their table   *)
(* offsets, off at the end of the last of them and a largest alignment a   *)
(* power of two up to 8; the later ones have nothing yet.  verify_offsets  *)
(* runs only once all three classes exist, and has not failed.             *)
LInv ==
  /\ plat \in Platforms
  /\ DOMAIN offsets = 1..3 /\ DOMAIN size = 1..3
  /\ cur \in 1..3
  /\ phase \in {"import", "verify", "passed"}
  /\ vk \in 1..(Len(Expected) + 1)
  /\ phase # "import" => cur = 3
  /\ \A ci \in 1..2 :
       /\ ci < cur => /\ offsets[ci] = Prefix(ci, Len(Tab(ci)))
                      /\ size[ci] = Normative[ci].size
       /\ ci = cur => /\ k \in 1..(Len(Tab(ci)) + 1)
                      /\ offsets[ci] = Prefix(ci, k - 1)
                      /\ off = EndOf(ci, k - 1)
                      /\ salign \in {1, 2, 4, 8}
                      /\ size[ci] = 0
       /\ ci > cur => offsets[ci] = Prefix(ci, 0) /\ size[ci] = 0

(* Appending the table offset of the next field extends the prefix.        *)
LEMMA PrefixAppend ==
  ASSUME NEW ci \in 1..2, NEW n \in 0..(Len(Tab(ci)) - 1)
  PROVE  Append(Prefix(ci, n), Tab(ci)[n + 1][1]) = Prefix(ci, n + 1)
  <1>1. \A j \in 1..Len(Tab(ci)) : Tab(ci)[j][1] \in Nat
    <2>1. CASE ci = 1 BY <2>1, ClassFacts
    <2>2. CASE ci = 2 BY <2>2, ClassFacts
    <2>3. QED BY <2>1, <2>2
  <1>2. Prefix(ci, n) \in Seq(Nat) /\ Len(Prefix(ci, n)) = n
    BY <1>1 DEF Prefix
  <1>3. Tab(ci)[n + 1][1] \in Nat
    BY <1>1
  <1>4. QED
    BY <1>2, <1>3 DEF Prefix

LEMMA LInvInit == Init => LInv
  <1> SUFFICES ASSUME Init PROVE LInv
    OBVIOUS
  <1>1. \A ci \in 1..3 : offsets[ci] = Prefix(ci, 0) /\ size[ci] = 0
    BY ClassFacts DEF Init, Prefix
  <1>2. off = EndOf(1, 0) /\ k = 1 /\ salign = 1 /\ cur = 1
    BY DEF Init, EndOf
  <1>3. 1 \in 1..(Len(Tab(1)) + 1) /\ Len(Expected) = 10
    BY ClassFacts DEF Expected
  <1>4. QED
    BY <1>1, <1>2, <1>3, ClassFacts DEF Init, LInv

(* The class being created: a field of it is placed.                       *)
LEMMA PlaceFieldStep ==
  ASSUME NaturalAlignment, LInv, PlaceField
  PROVE  LInv'
  <1>0. /\ plat' = plat /\ cur' = cur /\ size' = size /\ phase' = phase
        /\ vk' = vk /\ k' = k + 1 /\ phase = "import"
        /\ k <= Len(Classes[cur].fields)
    BY DEF PlaceField
  <1> DEFINE c == Classes[cur]
             f == c.fields[k]
             a == FieldAlign(c, f)
             o == AlignUp(off, a)
  <1>1. offsets' = [offsets EXCEPT ![cur] = Append(@, o)]
        /\ off' = o + FieldSize(f) /\ salign' = Larger(salign, a)
    BY DEF PlaceField
  <1>2. CASE cur = 3
    <2>1. \A ci \in 1..2 : offsets'[ci] = offsets[ci]
      BY <1>1, <1>2 DEF LInv
    <2>2. DOMAIN offsets' = 1..3
      BY <1>1 DEF LInv
    <2>3. QED
      BY <1>0, <1>2, <2>1, <2>2 DEF LInv
  <1>3. CASE cur \in 1..2
    <2>0. k \in 1..(Len(Tab(cur)) + 1)
      BY <1>3 DEF LInv
    <2>1. Len(c.fields) = Len(Tab(cur)) /\ k \in 1..Len(Tab(cur))
      <3>1. Len(c.fields) = Len(Tab(cur))
        <4>1. CASE cur = 1 BY <4>1, ClassFacts
        <4>2. CASE cur = 2 BY <4>2, ClassFacts
        <4>3. QED BY <1>3, <4>1, <4>2
      <3>2. QED BY <1>0, <2>0, <3>1
    <2>2. off = EndOf(cur, k - 1) /\ offsets[cur] = Prefix(cur, k - 1)
          /\ salign \in {1, 2, 4, 8}
      BY <1>3 DEF LInv
    <2>3. /\ o = Tab(cur)[k][1]
          /\ Tab(cur)[k][1] + FieldSize(f) = EndOf(cur, k)
          /\ a \in {1, 2, 4, 8}
      BY <1>3, <2>1, <2>2, PlaceExact DEF LInv
    <2>4. offsets'[cur] = Prefix(cur, k)
      <3>1. offsets'[cur] = Append(Prefix(cur, k - 1), Tab(cur)[k][1])
        BY <1>1, <1>3, <2>2, <2>3 DEF LInv
      <3>2. QED
        BY <3>1, <2>1, <1>3, PrefixAppend
    <2>5. off' = EndOf(cur, k) /\ salign' \in {1, 2, 4, 8}
      BY <1>1, <2>2, <2>3 DEF Larger
    <2>6. \A ci \in 1..2 \ {cur} : offsets'[ci] = offsets[ci]
      BY <1>1 DEF LInv
    <2>7. DOMAIN offsets' = 1..3
      BY <1>1 DEF LInv
    <2>8. k' \in 1..(Len(Tab(cur)) + 1) /\ k' - 1 = k
      BY <1>0, <2>1
    <2>9. QED
      BY <1>0, <1>3, <2>4, <2>5, <2>6, <2>7, <2>8 DEF LInv
  <1>4. QED
    BY <1>2, <1>3 DEF LInv

(* The class statement completes and the next one starts, or the import    *)
(* ends and verify_offsets begins.                                         *)
LEMMA FinishClassStep ==
  ASSUME LInv, FinishClass
  PROVE  LInv'
  <1>0. /\ plat' = plat /\ offsets' = offsets /\ vk' = vk
        /\ phase = "import" /\ k > Len(Classes[cur].fields)
        /\ size' = [size EXCEPT ![cur] = AlignUp(off, salign)]
        /\ k' = 1 /\ off' = 0 /\ salign' = 1
    BY DEF FinishClass
  <1>1. DOMAIN size' = 1..3
    BY <1>0 DEF LInv
  <1>2. CASE cur = 3
    <2>1. cur' = 3 /\ phase' = "verify"
      BY <1>0, <1>2, ClassFacts DEF FinishClass
    <2>2. \A ci \in 1..2 : size'[ci] = size[ci]
      BY <1>0, <1>2 DEF LInv
    <2>3. QED
      BY <1>0, <1>1, <1>2, <2>1, <2>2 DEF LInv
  <1>3. CASE cur \in 1..2
    <2>1. cur' = cur + 1 /\ phase' = phase
      BY <1>0, <1>3, ClassFacts DEF FinishClass
    <2>2. Len(Classes[cur].fields) = Len(Tab(cur))
      <3>1. CASE cur = 1 BY <3>1, ClassFacts
      <3>2. CASE cur = 2 BY <3>2, ClassFacts
      <3>3. QED BY <1>3, <3>1, <3>2
    <2>3. k = Len(Tab(cur)) + 1 /\ off = EndOf(cur, Len(Tab(cur)))
          /\ salign \in {1, 2, 4, 8} /\ offsets[cur] = Prefix(cur, k - 1)
      BY <1>0, <1>3, <2>2 DEF LInv
    <2>4. size'[cur] = Normative[cur].size
      <3>1. AlignUp(off, salign) = Normative[cur].size
        BY <1>3, <2>2, <2>3, SizeExact
      <3>2. QED
        BY <1>0, <1>3, <3>1 DEF LInv
    <2>5. \A ci \in 1..2 \ {cur} : size'[ci] = size[ci]
      BY <1>0 DEF LInv
    <2>6. ASSUME NEW ci \in 1..2
          PROVE  /\ ci < cur' => /\ offsets'[ci] = Prefix(ci, Len(Tab(ci)))
                                 /\ size'[ci] = Normative[ci].size
                 /\ ci = cur' => /\ k' \in 1..(Len(Tab(ci)) + 1)
                                 /\ offsets'[ci] = Prefix(ci, k' - 1)
                                 /\ off' = EndOf(ci, k' - 1)
                                 /\ salign' \in {1, 2, 4, 8}
                                 /\ size'[ci] = 0
                 /\ ci > cur' => offsets'[ci] = Prefix(ci, 0) /\ size'[ci] = 0
      <3>1. CASE ci = cur
        BY <1>0, <2>1, <2>3, <2>4, <3>1
      <3>2. CASE ci < cur
        BY <1>0, <2>1, <2>5, <3>2 DEF LInv
      <3>3. CASE ci > cur
        <4>1. ci = cur + 1 /\ ci > cur /\ ci \in 1..2
          BY <1>3, <3>3
        <4>2. offsets[ci] = Prefix(ci, 0) /\ size[ci] = 0
          BY <4>1 DEF LInv
        <4>3. size'[ci] = 0
          BY <4>1, <4>2, <2>5
        <4>4. 1 \in 1..(Len(Tab(ci)) + 1) /\ EndOf(ci, 0) = 0
          BY DEF EndOf
        <4>5. QED
          BY <1>0, <2>1, <4>1, <4>2, <4>3, <4>4
      <3>4. QED
        BY <1>3, <3>1, <3>2, <3>3
    <2>7. QED
      BY <1>0, <1>1, <1>3, <2>1, <2>6 DEF LInv
  <1>4. QED
    BY <1>2, <1>3 DEF LInv

(* verify_offsets compares one entry: it matches, so nothing is raised.    *)
LEMMA CheckOffsetStep ==
  ASSUME LInv, CheckOffset
  PROVE  LInv'
  <1>0. /\ plat' = plat /\ cur' = cur /\ k' = k /\ off' = off
        /\ salign' = salign /\ offsets' = offsets /\ size' = size
        /\ phase = "verify" /\ vk <= Len(Expected) /\ vk' = vk + 1
    BY DEF CheckOffset
  <1>1. cur = 3 /\ offsets[1] = Prefix(1, 14) /\ Len(Expected) = 10
    <2>1. cur = 3
      BY <1>0 DEF LInv
    <2>2. offsets[1] = Prefix(1, Len(Tab(1)))
      BY <2>1 DEF LInv
    <2>3. Len(Expected) = 10
      BY DEF Expected
    <2>4. QED
      BY <2>1, <2>2, <2>3, ClassFacts
  <1>2. OffsetOf(1, Expected[vk][1]) = Expected[vk][2]
    BY <1>0, <1>1, OffsetOfExpected DEF LInv
  <1>3. phase' = phase
    BY <1>2 DEF CheckOffset
  <1>4. QED
    BY <1>0, <1>1, <1>3 DEF LInv

(* The size check passes and verify_offsets returns.                       *)
LEMMA CheckSizeStep ==
  ASSUME LInv, CheckSize
  PROVE  LInv'
  <1>0. /\ plat' = plat /\ cur' = cur /\ k' = k /\ off' = off
        /\ salign' = salign /\ offsets' = offsets /\ size' = size
        /\ vk' = vk /\ phase = "verify"
    BY DEF CheckSize
  <1>1. size[1] = 128
    BY <1>0, ClassFacts DEF LInv
  <1>2. phase' = "passed"
    BY <1>1 DEF CheckSize, ExpectedScbSize
  <1>3. QED
    BY <1>0, <1>2 DEF LInv

LEMMA LInvStep ==
  ASSUME NaturalAlignment
  PROVE  LInv /\ [Next]_vars => LInv'
  <1> SUFFICES ASSUME LInv, [Next]_vars PROVE LInv'
    OBVIOUS
  <1>1. CASE PlaceField BY <1>1, PlaceFieldStep
  <1>2. CASE FinishClass BY <1>2, FinishClassStep
  <1>3. CASE CheckOffset BY <1>3, CheckOffsetStep
  <1>4. CASE CheckSize BY <1>4, CheckSizeStep
  <1>5. CASE UNCHANGED vars BY <1>5 DEF vars, LInv
  <1>6. QED BY <1>1, <1>2, <1>3, <1>4, <1>5 DEF Next

(* Every field of a created class has the size the table gives.            *)
LEMMA FieldSizes ==
  ASSUME NEW ci \in 1..2, NEW j \in 1..Len(Tab(ci))
  PROVE  FieldSize(Classes[ci].fields[j]) = Tab(ci)[j][2]
  <1>1. CASE ci = 1 BY <1>1, ClassFacts, ScbFieldFacts
  <1>2. CASE ci = 2 BY <1>2, ClassFacts, HintFieldFacts
  <1>3. QED BY <1>1, <1>2

LEMMA LInvLayout == LInv => LayoutMatchesSpec
  <1> SUFFICES ASSUME LInv, NEW ci \in 1..2, size[ci] # 0
               PROVE  /\ size[ci] = Normative[ci].size
                      /\ Len(offsets[ci]) = Len(Normative[ci].t)
                      /\ \A j \in 1..Len(offsets[ci]) :
                           /\ offsets[ci][j] = Normative[ci].t[j][1]
                           /\ FieldSize(Classes[ci].fields[j])
                                = Normative[ci].t[j][2]
    BY DEF LayoutMatchesSpec
  <1>1. ci < cur
    BY DEF LInv
  <1>2. offsets[ci] = Prefix(ci, Len(Tab(ci))) /\ size[ci] = Normative[ci].size
    BY <1>1 DEF LInv
  <1>3. Len(Tab(ci)) \in Nat
    <2>1. CASE ci = 1 BY <2>1, ClassFacts
    <2>2. CASE ci = 2 BY <2>2, ClassFacts
    <2>3. QED BY <2>1, <2>2
  <1>4. Len(offsets[ci]) = Len(Tab(ci))
        /\ \A j \in 1..Len(Tab(ci)) : offsets[ci][j] = Tab(ci)[j][1]
    BY <1>2, <1>3 DEF Prefix
  <1>5. QED
    BY <1>2, <1>4, FieldSizes DEF Tab

(* Once ctypes has created MorpheusScb or MorpheusHint, on any platform    *)
(* with natural integer alignment, every field (reserved and padding       *)
(* fields included) lies at the offset and has the size spec sections 3.1 *)
(* and 3.2 give, and so does the structure: the runtime's ctypes view and *)
(* the kernel's C view of the SCB agree.                                   *)
THEOREM LayoutCorrect ==
  ASSUME NaturalAlignment
  PROVE  Spec => []LayoutMatchesSpec
  <1>1. LInv /\ [Next]_vars => LInv'
    BY LInvStep
  <1>2. QED
    BY LInvInit, <1>1, LInvLayout, PTL DEF Spec
=============================================================================
