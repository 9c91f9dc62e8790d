------------------------------ MODULE ScbLayout ------------------------------
(***************************************************************************)
(* The shared-memory layouts of morpheus_common/_morpheus_shared.py as     *)
(* ctypes computes them, and the check verify_offsets makes of them.       *)
(*                                                                         *)
(* Running the module as a script (its __main__ block) first executes the  *)
(* class statements, in source order: ctypes lays out MorpheusScb,         *)
(* MorpheusHint and GlobalPressure one field at a time; then               *)
(* verify_offsets walks its table of expected offsets and the total size.  *)
(*                                                                         *)
(* ctypes places a field at its offset rounded up to the field's           *)
(* alignment, which is the alignment of its C type capped by the class's   *)
(* _pack_; the class's size is the end of its last field rounded up to the *)
(* largest field alignment.  The alignment of c_uint32 and c_uint64 is the *)
(* platform's ABI: 8 for a 64-bit integer on x86-64 and ARM, 4 on i386, 2  *)
(* on m68k.  The model lays the classes out on every platform of the       *)
(* constant Platforms.                                                     *)
(***************************************************************************)
EXTENDS Naturals, Sequences

CONSTANT
  Platforms   \* the ABIs considered: records [u32 |-> a, u64 |-> b]

ASSUME PlatformsAssumption ==
  \A p \in Platforms : p.u32 \in Nat \ {0} /\ p.u64 \in Nat \ {0}

(* The fixed-width C types the structures use, with their sizes. *)
CSize == [u32 |-> 4, u64 |-> 8]

(* A field of a _fields_ list: (name, ctype) or (name, ctype * count). *)
Field(name, ctype, count) == [name |-> name, ctype |-> ctype, count |-> count]

(* Mutant of ScbFields: the explicit _pad field left out. *)
ScbFieldsNoPad ==
  << Field("preempt_seq", "u64", 1), Field("budget_remaining_ns", "u64", 1),
     Field("kernel_pressure_level", "u32", 1), Field("worker_state", "u32", 1),
     Field("_reserved0", "u64", 5),
     Field("is_in_critical_section", "u32", 1), Field("escapable", "u32", 1),
     Field("last_ack_seq", "u64", 1), Field("runtime_priority", "u32", 1),
     Field("last_yield_reason", "u32", 1), Field("_reserved1", "u64", 1),
     Field("escalation_policy", "u32", 1), Field("_reserved2", "u64", 3) >>

(* MorpheusScb._fields_. *)
ScbFields ==
  << Field("preempt_seq", "u64", 1), Field("budget_remaining_ns", "u64", 1),
     Field("kernel_pressure_level", "u32", 1), Field("worker_state", "u32", 1),
     Field("_reserved0", "u64", 5),
     Field("is_in_critical_section", "u32", 1), Field("escapable", "u32", 1),
     Field("last_ack_seq", "u64", 1), Field("runtime_priority", "u32", 1),
     Field("last_yield_reason", "u32", 1), Field("_reserved1", "u64", 1),
     Field("escalation_policy", "u32", 1), Field("_pad", "u32", 1),
     Field("_reserved2", "u64", 3) >>

(* Mutant of HintFields: the reason and target_tid fields declared ahead  *)
(* of seq.                                                                 *)
HintFieldsReordered ==
  << Field("reason", "u32", 1), Field("target_tid", "u32", 1),
     Field("seq", "u64", 1), Field("deadline_ns", "u64", 1) >>

(* MorpheusHint._fields_. *)
HintFields ==
  << Field("seq", "u64", 1), Field("reason", "u32", 1),
     Field("target_tid", "u32", 1), Field("deadline_ns", "u64", 1) >>

(* GlobalPressure._fields_. *)
PressureFields ==
  << Field("cpu_pressure_pct", "u32", 1), Field("io_pressure_pct", "u32", 1),
     Field("memory_pressure_pct", "u32", 1), Field("runqueue_depth", "u32", 1) >>

(* The classes in the order their statements run, with their _pack_ (0     *)
(* where the class sets none).                                             *)
Classes ==
  << [name |-> "MorpheusScb", fields |-> ScbFields, pack |-> 8],
     [name |-> "MorpheusHint", fields |-> HintFields, pack |-> 8],
     [name |-> "GlobalPressure", fields |-> PressureFields, pack |-> 0] >>

(* The expected table of verify_offsets, in its (insertion) order. *)
Expected ==
  << <<"preempt_seq", 0>>, <<"budget_remaining_ns", 8>>,
     <<"kernel_pressure_level", 16>>, <<"worker_state", 20>>,
     <<"is_in_critical_section", 64>>, <<"escapable", 68>>,
     <<"last_ack_seq", 72>>, <<"runtime_priority", 80>>,
     <<"last_yield_reason", 84>>, <<"escalation_policy", 96>> >>

(* The size verify_offsets requires of MorpheusScb. *)
ExpectedScbSize == 128

VARIABLES
  plat,     \* the platform the interpreter runs on
  cur,      \* index in Classes of the class being laid out
  k,        \* index of the next field of that class to place
  off,      \* end of the fields placed so far
  salign,   \* largest alignment of the fields placed so far
  offsets,  \* per class, the offsets of its placed fields
  size,     \* per class, sizeof() once the class is complete (0 before)
  phase,    \* "import", "verify", "passed" or "failed"
  vk        \* index of the next entry of Expected to check

vars == <<plat, cur, k, off, salign, offsets, size, phase, vk>>

-----------------------------------------------------------------------------
(* n rounded up to a multiple of a. *)
AlignUp(n, a) == ((n + a - 1) \div a) * a

Larger(a, b) == IF a >= b THEN a ELSE b

(* The alignment ctypes gives a field of class c: its C type's on the      *)
(* platform (an array aligns as its element), capped by _pack_.            *)
FieldAlign(c, f) ==
  LET a == plat[f.ctype]
  IN  IF c.pack # 0 /\ c.pack < a THEN c.pack ELSE a

FieldSize(f) == CSize[f.ctype] * f.count

(* getattr(cls, name).offset, for a field of a laid-out class. *)
OffsetOf(ci, name) ==
  LET fs == Classes[ci].fields
  IN  offsets[ci][CHOOSE j \in 1..Len(fs) : fs[j].name = name]

Init ==
  /\ plat \in Platforms
  /\ cur = 1
  /\ k = 1
  /\ off = 0
  /\ salign = 1
  /\ offsets = [ci \in 1..Len(Classes) |-> <<>>]
  /\ size = [ci \in 1..Len(Classes) |-> 0]
  /\ phase = "import"
  /\ vk = 1

(* ctypes places the next field of the class being created. *)
PlaceField ==
  /\ phase = "import"
  /\ k <= Len(Classes[cur].fields)
  /\ LET c == Classes[cur]
         f == c.fields[k]
         a == FieldAlign(c, f)
         o == AlignUp(off, a)
     IN  /\ offsets' = [offsets EXCEPT ![cur] = Append(@, o)]
         /\ off' = o + FieldSize(f)
         /\ salign' = Larger(salign, a)
         /\ k' = k + 1
  /\ UNCHANGED <<plat, cur, size, phase, vk>>

(* The class statement completes: its size is fixed, and the next class    *)
(* statement runs, or the import is over and __main__ calls verify_offsets. *)
FinishClass ==
  /\ phase = "import"
  /\ k > Len(Classes[cur].fields)
  /\ size' = [size EXCEPT ![cur] = AlignUp(off, salign)]
  /\ IF cur < Len(Classes)
       THEN /\ cur' = cur + 1
            /\ phase' = phase
       ELSE /\ cur' = cur
            /\ phase' = "verify"
  /\ k' = 1
  /\ off' = 0
  /\ salign' = 1
  /\ UNCHANGED <<plat, offsets, vk>>

(* One turn of verify_offsets' loop: it raises AssertionError on a         *)
(* mismatch.                                                               *)
CheckOffset ==
  /\ phase = "verify"
  /\ vk <= Len(Expected)
  /\ IF OffsetOf(1, Expected[vk][1]) = Expected[vk][2]
       THEN phase' = phase
       ELSE phase' = "failed"
  /\ vk' = vk + 1
  /\ UNCHANGED <<plat, cur, k, off, salign, offsets, size>>

(* The size check at the end of verify_offsets. *)
CheckSize ==
  /\ phase = "verify"
  /\ vk > Len(Expected)
  /\ phase' = IF size[1] = ExpectedScbSize THEN "passed" ELSE "failed"
  /\ UNCHANGED <<plat, cur, k, off, salign, offsets, size, vk>>

Next == PlaceField \/ FinishClass \/ CheckOffset \/ CheckSize

Spec == Init /\ [][Next]_vars

-----------------------------------------------------------------------------
TypeOK ==
  /\ plat \in Platforms
  /\ cur \in 1..Len(Classes)
  /\ k \in 1..(Len(ScbFields) + 1)
  /\ off \in Nat /\ salign \in Nat \ {0}
  /\ offsets \in [1..Len(Classes) -> Seq(Nat)]
  /\ size \in [1..Len(Classes) -> Nat]
  /\ phase \in {"import", "verify", "passed", "failed"}
  /\ vk \in 1..(Len(Expected) + 1)

(* The tables of spec sections 3.1 and 3.2, field by field: offset and     *)
(* size, reserved and padding fields included, and the total size.         *)
ScbTable ==
  << <<0, 8>>, <<8, 8>>, <<16, 4>>, <<20, 4>>, <<24, 40>>,
     <<64, 4>>, <<68, 4>>, <<72, 8>>, <<80, 4>>, <<84, 4>>, <<88, 8>>,
     <<96, 4>>, <<100, 4>>, <<104, 24>> >>
HintTable == << <<0, 8>>, <<8, 4>>, <<12, 4>>, <<16, 8>> >>
Normative == [ci \in 1..2 |-> IF ci = 1 THEN [t |-> ScbTable, size |-> 128]
                                      ELSE [t |-> HintTable, size |-> 24]]

(* Once ctypes has created MorpheusScb or MorpheusHint, on any of the      *)
(* platforms, every field, the reserved and padding fields that            *)
(* verify_offsets does not look at included, lies at the offset and has    *)
(* the size the normative tables give, and the structure has the size they *)
(* give: the kernel and the runtime see the same bytes.                    *)
LayoutMatchesSpec ==
  \A ci \in 1..2 :
    size[ci] # 0 =>
      /\ size[ci] = Normative[ci].size
      /\ Len(offsets[ci]) = Len(Normative[ci].t)
      /\ \A j \in 1..Len(offsets[ci]) :
           /\ offsets[ci][j] = Normative[ci].t[j][1]
           /\ FieldSize(Classes[ci].fields[j]) = Normative[ci].t[j][2]

=============================================================================
