------------------------ MODULE FunctionLinkerProofs ------------------------
(***************************************************************************)
(* Theorems about FunctionLinker, for every set of objects: of any number  *)
(* of functions, of any length, that call each other in any way.           *)
(***************************************************************************)
EXTENDS FunctionLinker, SequenceTheorems, FiniteSetTheorems, TLAPS

-----------------------------------------------------------------------------
(* The inductive invariant *)

\* The code of function k of object o as parsed.
Body(o, k) == o.functions[k].instructions

\* Where the functions that the program has start in it.
Starts == [k \in DOMAIN linked \union {main} |-> IF k = main THEN 0 ELSE linked[k]]

\* What a copy of an instruction has in common with it.
Same(copy, ins) == copy.op = ins.op /\ copy.from = ins.from /\ copy.to = ins.to

\* The code is that of the functions which start as `at` says, up to the immediates.
Copies(o, code, at) ==
  /\ code \in Seq(Instruction)
  /\ DOMAIN at \subseteq DOMAIN o.functions
  /\ at \in [DOMAIN at -> Nat]
  /\ \A k \in DOMAIN at : \A j \in DOMAIN Body(o, k) :
       at[k] + j \in DOMAIN code /\ Same(code[at[k] + j], Body(o, k)[j])
  /\ \A i \in DOMAIN code : \E k \in DOMAIN at : \E j \in DOMAIN Body(o, k) : i = at[k] + j

\* The frames are of different functions, and each but the last waits at a call of the
\* function of the next.
Frames(o, at, frames) ==
  /\ frames \in Seq([fun : Places, start : Nat, next : Nat])
  /\ \A f \in DOMAIN frames :
       /\ frames[f].fun \in DOMAIN at
       /\ frames[f].start = at[frames[f].fun]
       /\ frames[f].next \in frames[f].start
                               .. frames[f].start + Len(Body(o, frames[f].fun))
  /\ \A f, g \in DOMAIN frames : f # g => frames[f].fun # frames[g].fun
  /\ \A f \in DOMAIN frames : f + 1 \in DOMAIN frames =>
       LET j == frames[f].next - frames[f].start + 1 IN
       /\ j \in DOMAIN Body(o, frames[f].fun)
       /\ Body(o, frames[f].fun)[j].op # "other"
       /\ Body(o, frames[f].fun)[j].to = frames[f + 1].fun

\* Instruction j of function k is one that a frame has yet to come to, or waits at.
Open(at, frames, k, j) ==
  \E f \in DOMAIN frames : frames[f].fun = k /\ frames[f].next < at[k] + j

\* The open instructions have their immediate as parsed, the other calls reach the start
\* of their callee.
Immediates(o, code, at, frames) ==
  \A k \in DOMAIN at : \A j \in DOMAIN Body(o, k) :
    /\ Open(at, frames, k, j) => code[at[k] + j].imm = Body(o, k)[j].imm
    /\ ~Open(at, frames, k, j) /\ Body(o, k)[j].op # "other" =>
         /\ Body(o, k)[j].to \in DOMAIN at
         /\ at[k] + j + code[at[k] + j].imm = at[Body(o, k)[j].to]

\* What infos say: which function or instruction is where.
Said(infos) == {<<info.insn_off, info.of>> : info \in Range(infos)}

\* All functions in the program have func_info, or none has. If they have, the infos of
\* the program are right.
Informed(o, fun, at) ==
  /\ fun \in Function
  /\ \A k \in DOMAIN at : (fun.func_info = <<>>) <=> (o.functions[k].func_info = <<>>)
  /\ fun.func_info # <<>> =>
       /\ Said(fun.func_info) = {<<at[k], k>> : k \in DOMAIN at}
       /\ Said(fun.line_info) =
            {<<i - 1, fun.instructions[i].from>> : i \in DOMAIN fun.instructions}

\* A function is as parsed, or it is a linked program that nothing calls.
FunctionsKept ==
  \A k \in DOMAIN functions :
    \/ functions[k] = object.functions[k]
    \/ k \notin todo /\ \A l \in DOMAIN functions : k \notin Callees({l})

\* While a program is linked.
Linking ==
  /\ main \in todo /\ main \notin DOMAIN linked /\ stack[1].fun = main
  /\ DOMAIN linked \subseteq Reached(main) \ {Nowhere}
  /\ \A k \in DOMAIN Starts : functions[k] = object.functions[k]
  /\ Callees({main}) = {} => program = object.functions[main]
  /\ Copies(object, program.instructions, Starts)
  /\ Frames(object, Starts, stack)
  /\ Immediates(object, program.instructions, Starts, stack)
  /\ Informed(object, program, Starts)

\* The inductive invariant.
IInv ==
  /\ Parsed(object) /\ Regular
  /\ TypeOK /\ FunctionsKept
  /\ stack # <<>> => Linking
  /\ CallsLand /\ LinkedExactly /\ InfoMatches /\ OnlyRealErrors

-----------------------------------------------------------------------------
(* Objects *)

\* The code of a function, instruction by instruction.
LEMMA ParsedCode ==
  ASSUME NEW o, Parsed(o), NEW k \in DOMAIN o.functions
  PROVE  /\ k \in Places /\ k # Nowhere
         /\ o.functions[k] \in Function /\ o.functions[k].section_offset = k[2]
         /\ Body(o, k) \in Seq(Instruction)
         /\ Len(Body(o, k)) \in Nat \ {0} /\ DOMAIN Body(o, k) = 1 .. Len(Body(o, k))
         /\ \A j \in DOMAIN Body(o, k) :
              /\ Body(o, k)[j] \in Instruction
              /\ Body(o, k)[j].from = <<k[1], k[2] + (j - 1) * INS_SIZE>>
<1>1. k \in Places /\ k # Nowhere /\ o.functions[k].section_offset = k[2]
  BY DEF Parsed
<1>2. o.functions[k] \in Function
  BY DEF Parsed
<1>3. Body(o, k) \in Seq(Instruction)
  BY <1>2 DEF Function, Body
<1>4. CodeParsed(o, k)
  BY DEF Parsed
<1>5. Body(o, k) # <<>>
  BY <1>4 DEF CodeParsed, Body
<1>6. Len(Body(o, k)) \in Nat \ {0} /\ DOMAIN Body(o, k) = 1 .. Len(Body(o, k))
  BY <1>3, <1>5, EmptySeq, LenProperties
<1>7. ASSUME NEW j \in DOMAIN Body(o, k)
      PROVE  /\ Body(o, k)[j] \in Instruction
             /\ Body(o, k)[j].from = <<k[1], k[2] + (j - 1) * INS_SIZE>>
  BY <1>3, <1>4, <1>6, ElementOfSeq DEF CodeParsed, Body
<1> QED
  BY <1>1, <1>2, <1>3, <1>6, <1>7, Zenon

\* No two instructions of an object have the same place.
LEMMA FromUnique ==
  ASSUME NEW o, Parsed(o), NEW k \in DOMAIN o.functions, NEW l \in DOMAIN o.functions,
         NEW i \in DOMAIN Body(o, k), NEW j \in DOMAIN Body(o, l),
         Body(o, k)[i].from = Body(o, l)[j].from
  PROVE  k = l /\ i = j
<1>1. /\ k \in Places /\ l \in Places
      /\ Len(Body(o, k)) \in Nat /\ DOMAIN Body(o, k) = 1 .. Len(Body(o, k))
      /\ Len(Body(o, l)) \in Nat /\ DOMAIN Body(o, l) = 1 .. Len(Body(o, l))
  BY ParsedCode
<1>2. <<k[1], k[2] + (i - 1) * INS_SIZE>> = <<l[1], l[2] + (j - 1) * INS_SIZE>>
  BY ParsedCode
<1>3. k[1] = l[1] /\ k[2] + (i - 1) * 8 = l[2] + (j - 1) * 8
  BY <1>2 DEF INS_SIZE
<1>4. k[2] < l[2] => k[2] + Len(Body(o, k)) * 8 <= l[2]
  BY <1>3 DEF Parsed, CodeParsed, Body, INS_SIZE
<1>5. l[2] < k[2] => l[2] + Len(Body(o, l)) * 8 <= k[2]
  BY <1>3 DEF Parsed, CodeParsed, Body, INS_SIZE
<1>6. k[2] \in Nat /\ l[2] \in Nat
  BY <1>1 DEF Places
<1>7. i \in 1 .. Len(Body(o, k)) /\ j \in 1 .. Len(Body(o, l))
  BY <1>1
<1>8. k[2] = l[2] /\ i = j
  <2> DEFINE a == k[2]
             b == l[2]
             m == Len(Body(o, k))
             n == Len(Body(o, l))
  <2>1. /\ a \in Nat /\ b \in Nat /\ m \in Nat /\ n \in Nat /\ i \in 1 .. m /\ j \in 1 .. n
        /\ a + (i - 1) * 8 = b + (j - 1) * 8
        /\ a < b => a + m * 8 <= b
        /\ b < a => b + n * 8 <= a
    BY <1>1, <1>3, <1>4, <1>5, <1>6, <1>7, Zenon
  <2> HIDE DEF a, b, m, n
  <2>2. a = b /\ i = j
    BY <2>1
  <2> QED
    BY <2>2 DEF a, b
<1>9. k = l
  BY <1>1, <1>3, <1>8 DEF Places
<1> QED
  BY <1>8, <1>9

\* Only the first instruction of a function is where the function is.
LEMMA OnlyFirst ==
  ASSUME NEW o, Parsed(o), NEW k \in DOMAIN o.functions, NEW i \in DOMAIN Body(o, k)
  PROVE  /\ Body(o, k)[1].from = k
         /\ Body(o, k)[i].from \in DOMAIN o.functions => i = 1
<1>1. \A l \in DOMAIN o.functions : 1 \in DOMAIN Body(o, l) /\ Body(o, l)[1].from = l
  <2>1. SUFFICES ASSUME NEW l \in DOMAIN o.functions
                 PROVE  1 \in DOMAIN Body(o, l) /\ Body(o, l)[1].from = l
    OBVIOUS
  <2>2. 1 \in DOMAIN Body(o, l)
    BY ParsedCode
  <2>3. l \in Places /\ Body(o, l)[1].from = <<l[1], l[2] + (1 - 1) * INS_SIZE>>
    BY <2>2, ParsedCode
  <2> QED
    BY <2>2, <2>3 DEF Places, INS_SIZE
<1>2. ASSUME Body(o, k)[i].from \in DOMAIN o.functions
      PROVE  i = 1
  BY <1>1, <1>2, FromUnique
<1> QED
  BY <1>1, <1>2

\* What the linker reads from an instruction at place a.
Reads(o, a, imm) ==
  IF a \notin DOMAIN o.relocations THEN <<a[1], a[2] + (imm + 1) * INS_SIZE>>
  ELSE LET rel == o.relocations[a] IN
       <<rel.sym[1],
         CASE rel.kind = "symbol" -> rel.sym[2]
           [] rel.kind = "section" /\ rel.size = 32 -> rel.sym[2] + (imm + 1) * INS_SIZE
           [] rel.kind = "section" /\ rel.size = 64 -> rel.sym[2] + imm>>

\* The linker sees which instructions call or refer to code, and what.
LEMMA Encoding ==
  ASSUME NEW o, Parsed(o), NEW k \in DOMAIN o.functions, NEW i \in DOMAIN Body(o, k)
  PROVE  LET ins == Body(o, k)[i] IN
         /\ ins.op # "other" <=> ins.op = "call" \/ ins.from \in DOMAIN o.relocations
         /\ ins.op # "other" =>
              \/ ins.to \in DOMAIN o.functions /\ Reads(o, ins.from, ins.imm) = ins.to
              \/ Extern(o, ins)
<1> DEFINE ins == Body(o, k)[i]
<1>1. ins \in Instruction
  BY ParsedCode
<1>2. \/ ins.op = "other" /\ ins.from \notin DOMAIN o.relocations
      \/ ins.op # "other" /\ ins.to \in DOMAIN o.functions /\ Relative(o, ins)
      \/ ins.op # "other" /\ ins.to \in DOMAIN o.functions /\ Relocated(o, ins)
      \/ Extern(o, ins)
  BY DEF Parsed, CodeParsed, Body
<1> HIDE DEF ins
<1>3. CASE ins.op = "other" /\ ins.from \notin DOMAIN o.relocations
  BY <1>3, Zenon DEF ins
<1>4. CASE ins.op # "other" /\ ins.to \in DOMAIN o.functions /\ Relative(o, ins)
  <2>1. /\ ins.from \notin DOMAIN o.relocations /\ ins.op = "call"
        /\ ins.to = <<ins.from[1], ins.from[2] + (ins.imm + 1) * INS_SIZE>>
    BY <1>4 DEF Relative
  <2>2. Reads(o, ins.from, ins.imm) = ins.to
    BY <2>1 DEF Reads
  <2> QED
    BY <1>4, <2>1, <2>2, Zenon DEF ins
<1>5. CASE ins.op # "other" /\ ins.to \in DOMAIN o.functions /\ Relocated(o, ins)
  <2> DEFINE rel == o.relocations[ins.from]
  <2>1. ins.from \in DOMAIN o.relocations
    BY <1>5 DEF Relocated
  <2>2. rel \in Relocation
    BY <2>1 DEF Parsed
  <2>3. rel.sym = <<rel.sym[1], rel.sym[2]>>
    BY <2>2 DEF Relocation, Places
  <2>4. \/ rel.kind = "symbol" /\ ins.to = rel.sym
        \/ /\ rel.kind = "section" /\ rel.size = 32
           /\ ins.to = <<rel.sym[1], rel.sym[2] + (ins.imm + 1) * INS_SIZE>>
        \/ /\ rel.kind = "section" /\ rel.size = 64
           /\ ins.to = <<rel.sym[1], rel.sym[2] + ins.imm>>
    BY <1>5 DEF Relocated
  <2> HIDE DEF rel
  <2>5. Reads(o, ins.from, ins.imm) =
          <<rel.sym[1],
            CASE rel.kind = "symbol" -> rel.sym[2]
              [] rel.kind = "section" /\ rel.size = 32 -> rel.sym[2] + (ins.imm + 1) * INS_SIZE
              [] rel.kind = "section" /\ rel.size = 64 -> rel.sym[2] + ins.imm>>
    BY <2>1 DEF Reads, rel
  <2>6. Reads(o, ins.from, ins.imm) = ins.to
    BY <2>3, <2>4, <2>5
  <2> QED
    BY <1>5, <2>1, <2>6, Zenon DEF ins
<1>6. CASE Extern(o, ins)
  <2>1. ins.op = "call" /\ ins.from \notin DOMAIN o.relocations
    BY <1>6 DEF Extern
  <2> QED
    BY <1>6, <2>1 DEF ins
<1> QED
  BY <1>2, <1>3, <1>4, <1>5, <1>6

\* In a regular object it sees the callee, or that there is none.
LEMMA Regularity ==
  ASSUME Parsed(object), Regular, NEW k \in DOMAIN object.functions,
         NEW i \in DOMAIN Body(object, k), Body(object, k)[i].op # "other"
  PROVE  LET ins == Body(object, k)[i] IN
         \/ /\ ins.to \in DOMAIN object.functions
            /\ Reads(object, ins.from, ins.imm) = ins.to
         \/ /\ ins.to = Nowhere
            /\ Reads(object, ins.from, ins.imm) \notin DOMAIN object.functions
<1> DEFINE ins == Body(object, k)[i]
<1>1. \/ ins.to \in DOMAIN object.functions /\ Reads(object, ins.from, ins.imm) = ins.to
      \/ Extern(object, ins)
  BY Encoding
<1>2. ASSUME Extern(object, ins), Reads(object, ins.from, ins.imm) \in DOMAIN object.functions
      PROVE  FALSE
  <2>1. ins \in Instruction
    BY ParsedCode
  <2>2. ins.from = <<ins.from[1], ins.from[2]>> /\ ins.from[2] \in Nat
    BY <2>1 DEF Instruction, Places
  <2>3. ins.from \notin DOMAIN object.relocations /\ ins.imm = -1
    BY <1>2 DEF Extern
  <2>4. ins.from[2] + (ins.imm + 1) * INS_SIZE = ins.from[2]
    BY <2>2, <2>3 DEF INS_SIZE
  <2>5. Reads(object, ins.from, ins.imm) = ins.from
    BY <2>2, <2>3, <2>4, Zenon DEF Reads
  <2>6. i = 1
    BY <1>2, <2>5, OnlyFirst
  <2>7. object.functions[k].instructions[1].op = "call"
        /\ object.functions[k].instructions[1].to = Nowhere
    BY <1>2, <2>6 DEF Extern, Body
  <2> QED
    BY <2>7 DEF Regular, Misled
<1>3. Extern(object, ins) => ins.to = Nowhere
  BY DEF Extern
<1> QED
  BY <1>1, <1>2, <1>3

-----------------------------------------------------------------------------
(* Callees *)

\* What functions call.
LEMMA CalleesDef ==
  ASSUME Parsed(object), NEW keys, keys \subseteq DOMAIN object.functions \union {Nowhere}, NEW x
  PROVE  x \in Callees(keys) <=>
           \E k \in keys \ {Nowhere} : \E i \in DOMAIN Body(object, k) :
             Body(object, k)[i].op # "other" /\ Body(object, k)[i].to = x
<1> DEFINE Of(k) == {y \in Range(Body(object, k)) : y.op # "other"}
<1>1. Callees(keys) = UNION {{ins.to : ins \in Of(k)} : k \in keys \ {Nowhere}}
  BY Zenon DEF Callees, Body
<1>2. \A k : x \in {ins.to : ins \in Of(k)} <=>
              \E i \in DOMAIN Body(object, k) :
                Body(object, k)[i].op # "other" /\ Body(object, k)[i].to = x
  BY DEF Range
<1> HIDE DEF Of
<1>3. x \in Callees(keys) <=> \E k \in keys \ {Nowhere} : x \in {ins.to : ins \in Of(k)}
  BY <1>1, Zenon
<1> QED
  BY <1>2, <1>3, Zenon

\* What one function calls: functions of the object, or nothing.
LEMMA CalleesOf ==
  ASSUME Parsed(object), NEW k \in DOMAIN object.functions
  PROVE  /\ Callees({k}) \subseteq DOMAIN object.functions \union {Nowhere}
         /\ \A x : x \in Callees({k}) <=>
              \E i \in DOMAIN Body(object, k) :
                Body(object, k)[i].op # "other" /\ Body(object, k)[i].to = x
<1>1. \A x : x \in Callees({k}) <=>
        \E i \in DOMAIN Body(object, k) :
          Body(object, k)[i].op # "other" /\ Body(object, k)[i].to = x
  <2>1. k # Nowhere
    BY ParsedCode
  <2>2. {k} \subseteq DOMAIN object.functions \union {Nowhere}
    OBVIOUS
  <2> QED
    BY <2>1, <2>2, CalleesDef
<1>2. ASSUME NEW i \in DOMAIN Body(object, k), Body(object, k)[i].op # "other"
      PROVE  Body(object, k)[i].to \in DOMAIN object.functions \union {Nowhere}
  <2>1. Extern(object, Body(object, k)[i]) => Body(object, k)[i].to = Nowhere
    BY DEF Extern
  <2> QED
    BY <1>2, <2>1, Encoding
<1> QED
  BY <1>1, <1>2

\* Reached(p) has the callees of p.
LEMMA ReachedBase ==
  ASSUME Parsed(object), NEW p \in DOMAIN object.functions
  PROVE  Callees({p}) \subseteq Reached(p)
BY CalleesOf, Zenon DEF Reached

\* Reached(p) has the callees of its members.
LEMMA ReachedStep ==
  ASSUME Parsed(object), NEW p \in DOMAIN object.functions,
         NEW k \in DOMAIN object.functions, k \in Reached(p)
  PROVE  Callees({k}) \subseteq Reached(p)
<1>1. SUFFICES ASSUME NEW x \in Callees({k}),
                      NEW S \in SUBSET (DOMAIN object.functions \union {Nowhere}),
                      Callees({p}) \union Callees(S) \subseteq S
               PROVE  x \in S
  BY CalleesOf, Zenon DEF Reached
<1>2. k \in S
  BY <1>1, Zenon DEF Reached
<1>3. x \in Callees(S)
  <2>1. k # Nowhere
    BY ParsedCode
  <2>2. PICK i \in DOMAIN Body(object, k) :
               Body(object, k)[i].op # "other" /\ Body(object, k)[i].to = x
    BY CalleesOf
  <2> QED
    BY <1>2, <2>1, <2>2, CalleesDef
<1> QED
  BY <1>1, <1>3

\* Reached(p) has nothing else.
LEMMA ReachedLeast ==
  ASSUME NEW p, NEW S \in SUBSET (DOMAIN object.functions \union {Nowhere}),
         Callees({p}) \union Callees(S) \subseteq S
  PROVE  Reached(p) \subseteq S
BY Zenon DEF Reached

-----------------------------------------------------------------------------
(* The last frame *)

\* The type of a frame.
FrameType == [fun : Places, start : Nat, next : Nat]

\* Starts, one by one.
LEMMA StartsDef ==
  main \notin DOMAIN linked =>
    /\ DOMAIN Starts = DOMAIN linked \union {main}
    /\ Starts[main] = 0 /\ \A k \in DOMAIN linked : Starts[k] = linked[k]
BY DEF Starts

\* What the invariant says of a link in progress.
LEMMA LinkingFacts ==
  ASSUME IInv, stack # <<>>
  PROVE  /\ Parsed(object) /\ Regular /\ Linking
         /\ DOMAIN functions = DOMAIN object.functions
         /\ main \in DOMAIN object.functions /\ main \in Programs /\ main \in todo
         /\ main \notin DOMAIN linked
         /\ DOMAIN Starts = DOMAIN linked \union {main} /\ Starts[main] = 0
         /\ \A k \in DOMAIN linked : Starts[k] = linked[k]
         /\ DOMAIN Starts \subseteq DOMAIN object.functions
         /\ \A k \in DOMAIN Starts : Starts[k] \in Nat
         /\ stack \in Seq(FrameType) /\ Len(stack) \in Nat \ {0} /\ DOMAIN stack = 1 .. Len(stack)
         /\ Top = stack[Len(stack)] /\ Len(stack) \in DOMAIN stack
         /\ program.instructions \in Seq(Instruction)
         /\ Len(program.instructions) \in Nat
         /\ DOMAIN program.instructions = 1 .. Len(program.instructions)
<1>1. Parsed(object) /\ Regular /\ Linking /\ TypeOK
  BY Zenon DEF IInv
<1>2. /\ DOMAIN functions = DOMAIN object.functions /\ todo \subseteq Programs
      /\ main \in todo /\ main \notin DOMAIN linked
  BY <1>1, Zenon DEF TypeOK, Linking
<1>3. main \in Programs /\ main \in DOMAIN object.functions
  BY <1>2, Zenon DEF Programs
<1>4. /\ DOMAIN Starts = DOMAIN linked \union {main}
      /\ Starts[main] = 0 /\ \A k \in DOMAIN linked : Starts[k] = linked[k]
  BY <1>2, StartsDef
<1>5. /\ DOMAIN Starts \subseteq DOMAIN object.functions
      /\ Starts \in [DOMAIN Starts -> Nat]
      /\ program.instructions \in Seq(Instruction)
  BY <1>1, Zenon DEF Linking, Copies
<1>6. \A k \in DOMAIN Starts : Starts[k] \in Nat
  BY <1>5, Zenon
<1>7. stack \in Seq(FrameType)
  BY <1>1, Zenon DEF Linking, Frames, FrameType
<1>8. Len(stack) \in Nat \ {0} /\ DOMAIN stack = 1 .. Len(stack)
  BY <1>7, EmptySeq, LenProperties
<1>9. Top = stack[Len(stack)] /\ Len(stack) \in DOMAIN stack
  BY <1>8 DEF Top, Last
<1>10. /\ Len(program.instructions) \in Nat
       /\ DOMAIN program.instructions = 1 .. Len(program.instructions)
  BY <1>5, LenProperties
<1> QED
  BY <1>1, <1>2, <1>3, <1>4, <1>5, <1>6, <1>7, <1>8, <1>9, <1>10, Zenon

\* The function of a frame, its start, and its place in the loop.
LEMMA FrameFacts ==
  ASSUME IInv, stack # <<>>, NEW f \in DOMAIN stack
  PROVE  /\ stack[f].fun \in DOMAIN Starts /\ stack[f].fun \in DOMAIN object.functions
         /\ functions[stack[f].fun] = object.functions[stack[f].fun]
         /\ stack[f].start = Starts[stack[f].fun] /\ stack[f].start \in Nat
         /\ stack[f].next \in Nat /\ stack[f].start <= stack[f].next
         /\ stack[f].next <= stack[f].start + Len(Body(object, stack[f].fun))
         /\ Len(Body(object, stack[f].fun)) \in Nat \ {0}
         /\ DOMAIN Body(object, stack[f].fun) = 1 .. Len(Body(object, stack[f].fun))
<1>1. Linking /\ Parsed(object) /\ DOMAIN Starts \subseteq DOMAIN object.functions
      /\ \A k \in DOMAIN Starts : Starts[k] \in Nat
  BY LinkingFacts, Zenon
<1>2. /\ stack[f].fun \in DOMAIN Starts
      /\ stack[f].start = Starts[stack[f].fun]
      /\ stack[f].next \in stack[f].start
                             .. stack[f].start + Len(Body(object, stack[f].fun))
  BY <1>1, Zenon DEF Linking, Frames
<1>3. /\ functions[stack[f].fun] = object.functions[stack[f].fun]
      /\ stack[f].fun \in DOMAIN object.functions
  BY <1>1, <1>2, Zenon DEF Linking
<1>4. /\ Len(Body(object, stack[f].fun)) \in Nat \ {0}
      /\ DOMAIN Body(object, stack[f].fun) = 1 .. Len(Body(object, stack[f].fun))
  BY <1>1, <1>3, ParsedCode
<1>5. stack[f].start \in Nat
  BY <1>1, <1>2
<1>6. /\ stack[f].next \in Nat /\ stack[f].start <= stack[f].next
      /\ stack[f].next <= stack[f].start + Len(Body(object, stack[f].fun))
  BY <1>2, <1>4, <1>5
<1> QED
  BY <1>2, <1>3, <1>4, <1>5, <1>6, Zenon

\* The instructions of the functions in the program.
LEMMA CodeFacts ==
  ASSUME IInv, stack # <<>>, NEW k \in DOMAIN Starts, NEW j \in DOMAIN Body(object, k)
  PROVE  LET copy == program.instructions[Starts[k] + j] IN
         /\ Starts[k] + j \in DOMAIN program.instructions
         /\ Same(copy, Body(object, k)[j])
         /\ copy \in Instruction /\ Body(object, k)[j] \in Instruction
<1>1. Linking /\ Parsed(object) /\ DOMAIN Starts \subseteq DOMAIN object.functions
      /\ program.instructions \in Seq(Instruction)
  BY LinkingFacts, Zenon
<1>2. /\ Starts[k] + j \in DOMAIN program.instructions
      /\ Same(program.instructions[Starts[k] + j], Body(object, k)[j])
  BY <1>1, Zenon DEF Linking, Copies
<1>3. program.instructions[Starts[k] + j] \in Instruction
  BY <1>1, <1>2, ElementOfSeq, LenProperties
<1>4. Body(object, k)[j] \in Instruction
  BY <1>1, ParsedCode
<1> QED
  BY <1>2, <1>3, <1>4, Zenon

\* Two functions in the program do not overlap.
LEMMA Disjoint ==
  ASSUME IInv, stack # <<>>, NEW k \in DOMAIN Starts, NEW l \in DOMAIN Starts,
         NEW i \in DOMAIN Body(object, k), NEW j \in DOMAIN Body(object, l),
         Starts[k] + i = Starts[l] + j
  PROVE  k = l /\ i = j
<1>1. Parsed(object) /\ DOMAIN Starts \subseteq DOMAIN object.functions
  BY LinkingFacts, Zenon
<1>2. /\ Same(program.instructions[Starts[k] + i], Body(object, k)[i])
      /\ Same(program.instructions[Starts[l] + j], Body(object, l)[j])
  BY CodeFacts
<1>3. Body(object, k)[i].from = Body(object, l)[j].from
  BY <1>2 DEF Same
<1> QED
  BY <1>1, <1>3, FromUnique

\* What the loop of relocate sees at one of its instructions.
LEMMA LoopFacts ==
  ASSUME IInv, stack # <<>>,
         NEW i \in Top.next .. Top.start + Len(Body(object, Top.fun)) - 1
  PROVE  LET j == i - Top.start + 1
             ins == Body(object, Top.fun)[j]
         IN /\ i \in Nat /\ i + 1 \in DOMAIN program.instructions
            /\ j \in DOMAIN Body(object, Top.fun) /\ i + 1 = Starts[Top.fun] + j
            /\ ins \in Instruction
            /\ Same(program.instructions[i + 1], ins) /\ program.instructions[i + 1].imm = ins.imm
            /\ Place(i) = ins.from
<1> DEFINE k == Top.fun
           j == i - Top.start + 1
           ins == Body(object, k)[j]
<1>1. Top = stack[Len(stack)] /\ Len(stack) \in DOMAIN stack /\ Parsed(object) /\ Linking
  BY LinkingFacts, Zenon
<1>2. /\ k \in DOMAIN Starts /\ k \in DOMAIN object.functions
      /\ functions[k] = object.functions[k]
      /\ Top.start = Starts[k] /\ Top.start \in Nat
      /\ Top.next \in Nat /\ Top.start <= Top.next
      /\ Len(Body(object, k)) \in Nat \ {0}
      /\ DOMAIN Body(object, k) = 1 .. Len(Body(object, k))
  BY <1>1, FrameFacts
<1>3. i \in Nat /\ j \in DOMAIN Body(object, k) /\ i + 1 = Starts[k] + j
  BY <1>2
<1>4. /\ Starts[k] + j \in DOMAIN program.instructions
      /\ Same(program.instructions[Starts[k] + j], ins)
      /\ ins \in Instruction
  BY <1>2, <1>3, CodeFacts
<1>5. i + 1 \in DOMAIN program.instructions /\ Same(program.instructions[i + 1], ins)
  BY <1>3, <1>4
<1>6. Open(Starts, stack, k, j)
  BY <1>1, <1>2, <1>3 DEF Open
<1>7. program.instructions[Starts[k] + j].imm = ins.imm
  BY <1>1, <1>2, <1>3, <1>6, Zenon DEF Linking, Immediates
<1>8. program.instructions[i + 1].imm = ins.imm
  BY <1>3, <1>7, Zenon
<1>9. /\ object.functions[k].section_offset = k[2]
      /\ ins.from = <<k[1], k[2] + (j - 1) * INS_SIZE>>
  <2>1. Parsed(object) /\ k \in DOMAIN object.functions /\ j \in DOMAIN Body(object, k)
    BY <1>1, <1>2, <1>3, Zenon
  <2> HIDE DEF k, j
  <2> QED
    BY <2>1, ParsedCode
<1>10. j - 1 = i - Top.start
  BY <1>2, <1>3
<1>11. Place(i) = ins.from
  BY <1>2, <1>9, <1>10, Zenon DEF Place
<1> QED
  BY <1>3, <1>4, <1>5, <1>8, <1>11

\* What is pending is what calls or refers to code.
LEMMA PendingDef ==
  ASSUME IInv, stack # <<>>
  PROVE  \A i : i \in Pending <=>
           /\ i \in Top.next .. Top.start + Len(Body(object, Top.fun)) - 1
           /\ Body(object, Top.fun)[i - Top.start + 1].op # "other"
<1>1. Top = stack[Len(stack)] /\ Len(stack) \in DOMAIN stack /\ Parsed(object)
  BY LinkingFacts, Zenon
<1>2. Top.fun \in DOMAIN object.functions /\ functions[Top.fun] = object.functions[Top.fun]
  BY <1>1, FrameFacts
<1>3. Pending = {i \in Top.next .. Top.start + Len(Body(object, Top.fun)) - 1 :
                   program.instructions[i + 1].op = "call"
                     \/ Place(i) \in DOMAIN object.relocations}
  BY <1>2, Zenon DEF Pending, Body
<1>4. ASSUME NEW i \in Top.next .. Top.start + Len(Body(object, Top.fun)) - 1
      PROVE  Body(object, Top.fun)[i - Top.start + 1].op # "other" <=>
               program.instructions[i + 1].op = "call" \/ Place(i) \in DOMAIN object.relocations
  <2> DEFINE j == i - Top.start + 1
             ins == Body(object, Top.fun)[j]
  <2>1. /\ j \in DOMAIN Body(object, Top.fun)
        /\ Same(program.instructions[i + 1], ins) /\ Place(i) = ins.from
    BY LoopFacts, Zenon
  <2>2. ins.op # "other" <=> ins.op = "call" \/ ins.from \in DOMAIN object.relocations
    BY <1>1, <1>2, <2>1, Encoding
  <2> QED
    BY <2>1, <2>2, Zenon DEF Same
<1> QED
  BY <1>3, <1>4, Zenon

\* Every function of the program is main or one that main reaches, and so are its callees.
LEMMA CalleesReached ==
  ASSUME IInv, stack # <<>>, NEW k \in DOMAIN Starts
  PROVE  Callees({k}) \subseteq Reached(main)
<1>1. /\ Parsed(object) /\ main \in DOMAIN object.functions /\ Linking
      /\ DOMAIN Starts = DOMAIN linked \union {main}
      /\ DOMAIN Starts \subseteq DOMAIN object.functions
  BY LinkingFacts, Zenon
<1>2. CASE k = main
  BY <1>1, <1>2, ReachedBase
<1>3. CASE k \in DOMAIN linked
  <2>1. k \in Reached(main)
    BY <1>1, <1>3, Zenon DEF Linking
  <2> QED
    BY <1>1, <2>1, ReachedStep
<1> QED
  BY <1>1, <1>2, <1>3

\* The instruction that relocate handles next, and whether its callee is in the object.
LEMMA RelocatesFacts ==
  ASSUME IInv, NEW i, Relocates(i)
  PROVE  LET j == i - Top.start + 1
             ins == Body(object, Top.fun)[j]
         IN /\ stack # <<>> /\ i \in Nat /\ i + 1 \in DOMAIN program.instructions
            /\ Top.next <= i /\ i \in Top.next .. Top.start + Len(Body(object, Top.fun)) - 1
            /\ j \in DOMAIN Body(object, Top.fun) /\ i + 1 = Starts[Top.fun] + j
            /\ ins.op # "other" /\ ins.to \in Callees({Top.fun}) /\ ins.to \in Reached(main)
            /\ Callee(i) \in DOMAIN functions => Callee(i) = ins.to
            /\ Callee(i) \notin DOMAIN functions => ins.to = Nowhere
            /\ \A m \in DOMAIN Body(object, Top.fun) :
                 Top.next < Starts[Top.fun] + m /\ Starts[Top.fun] + m < i + 1 =>
                   Body(object, Top.fun)[m].op = "other"
<1> DEFINE k == Top.fun
           j == i - Top.start + 1
           ins == Body(object, k)[j]
<1>1. stack # <<>> /\ i \in Pending /\ \A n \in Pending : i <= n
  BY Zenon DEF Relocates
<1>2. /\ Top = stack[Len(stack)] /\ Len(stack) \in DOMAIN stack
      /\ Parsed(object) /\ Regular
      /\ DOMAIN functions = DOMAIN object.functions
  BY <1>1, LinkingFacts, Zenon
<1>3. /\ k \in DOMAIN Starts /\ k \in DOMAIN object.functions
      /\ Top.start = Starts[k] /\ Top.start \in Nat
      /\ Top.next \in Nat /\ Top.start <= Top.next
      /\ Len(Body(object, k)) \in Nat \ {0}
      /\ DOMAIN Body(object, k) = 1 .. Len(Body(object, k))
  BY <1>1, <1>2, FrameFacts
<1>4. i \in Top.next .. Top.start + Len(Body(object, k)) - 1 /\ ins.op # "other"
  BY <1>1, PendingDef, Zenon
<1>5. /\ i \in Nat /\ i + 1 \in DOMAIN program.instructions
      /\ j \in DOMAIN Body(object, k) /\ i + 1 = Starts[k] + j
      /\ program.instructions[i + 1].imm = ins.imm /\ Place(i) = ins.from
  BY <1>1, <1>4, LoopFacts, Zenon
<1>6. Callee(i) = Reads(object, ins.from, ins.imm)
  <2> HIDE DEF ins
  <2> QED
    BY <1>5 DEF Callee, Reads
<1>7. \/ ins.to \in DOMAIN functions /\ Callee(i) = ins.to
      \/ ins.to = Nowhere /\ Callee(i) \notin DOMAIN functions
  BY <1>2, <1>3, <1>4, <1>5, <1>6, Regularity
<1>8. ins.to \in Callees({k})
  BY <1>2, <1>3, <1>4, <1>5, CalleesOf
<1>9. ins.to \in Reached(main)
  BY <1>1, <1>3, <1>8, CalleesReached
<1>10. ASSUME NEW m \in DOMAIN Body(object, k),
              Top.next < Starts[k] + m, Starts[k] + m < i + 1
       PROVE  Body(object, k)[m].op = "other"
  <2> DEFINE n == Starts[k] + m - 1
  <2>0. m \in Nat /\ m <= Len(Body(object, k)) /\ Starts[k] \in Nat
    BY <1>3
  <2>1. n \in Top.next .. Top.start + Len(Body(object, k)) - 1 /\ ~(i <= n)
        /\ n - Top.start + 1 = m
    <3> DEFINE end == Top.start + Len(Body(object, k)) - 1
               at == Starts[k]
    <3>1. /\ at \in Nat /\ m \in Nat /\ i \in Nat /\ Top.start = at /\ Top.next \in Nat
          /\ end \in Int /\ at + m - 1 <= end /\ Top.next < at + m /\ at + m < i + 1
      BY <1>3, <1>5, <1>10, <2>0
    <3> HIDE DEF end, at
    <3>2. at + m - 1 \in Top.next .. end /\ ~(i <= at + m - 1) /\ (at + m - 1) - at + 1 = m
      BY <3>1
    <3> QED
      BY <3>1, <3>2, Zenon DEF end, at
  <2>2. n \notin Pending
    BY <1>1, <2>1
  <2> HIDE DEF n
  <2>3. Body(object, k)[n - Top.start + 1].op = "other"
    BY <1>1, <2>1, <2>2, PendingDef, Zenon
  <2> QED
    BY <2>1, <2>3
<1>11. Top.next <= i
  BY <1>3, <1>4
<1> QED
  BY <1>1, <1>4, <1>5, <1>7, <1>8, <1>9, <1>10, <1>11, Zenon

-----------------------------------------------------------------------------
(* A call is patched *)

\* Code in which one immediate is changed.
WithImm(code, p, imm) == [code EXCEPT ![p].imm = imm]

\* code2 is such code.
OnlyImm(code, p, imm, code2) ==
  /\ code2 \in Seq(Instruction) /\ Len(code2) = Len(code) /\ DOMAIN code2 = DOMAIN code
  /\ \A q \in DOMAIN code : Same(code2[q], code[q])
  /\ \A q \in DOMAIN code \ {p} : code2[q].imm = code[q].imm
  /\ code2[p].imm = imm

\* A patch changes one immediate.
LEMMA PatchedCode ==
  ASSUME NEW code \in Seq(Instruction), NEW p \in DOMAIN code, NEW imm \in Int
  PROVE  OnlyImm(code, p, imm, WithImm(code, p, imm))
<1> DEFINE code2 == WithImm(code, p, imm)
<1> DEFINE ins == [code[p] EXCEPT !.imm = imm]
<1>1. code[p] \in Instruction
  BY ElementOfSeq, LenProperties
<1>2. ins \in Instruction /\ ins.imm = imm /\ Same(ins, code[p])
  BY <1>1 DEF Instruction, Same
<1>3. \A q \in DOMAIN code : Same(code[q], code[q])
  BY DEF Same
<1>4. code2 = [code EXCEPT ![p] = ins]
  BY DEF WithImm
<1> HIDE DEF ins, code2
<1>5. code2 \in Seq(Instruction) /\ Len(code2) = Len(code) /\ DOMAIN code2 = DOMAIN code
  BY <1>2, <1>4, ExceptSeq, LenProperties
<1>6. \A q \in DOMAIN code : code2[q] = IF q = p THEN ins ELSE code[q]
  BY <1>4, Zenon
<1>7. DOMAIN code2 = DOMAIN code
  BY <1>4, Zenon
<1> QED
  BY <1>2, <1>3, <1>4, <1>5, <1>6, <1>7, Zenon DEF code2, OnlyImm

\* When a call has been patched, and the frames are past it, immediates are right.
LEMMA PatchedImmediates ==
  ASSUME NEW o, Parsed(o), NEW code, NEW at, NEW frames, NEW frames2, NEW imm \in Int,
         Copies(o, code, at), Immediates(o, code, at, frames),
         NEW k0 \in DOMAIN at, NEW j0 \in DOMAIN Body(o, k0),
         Body(o, k0)[j0].to \in DOMAIN at,
         NEW p, p = at[k0] + j0, p + imm = at[Body(o, k0)[j0].to],
         ~Open(at, frames2, k0, j0),
         \A k \in DOMAIN at : \A j \in DOMAIN Body(o, k) :
           Open(at, frames2, k, j) => Open(at, frames, k, j),
         \A k \in DOMAIN at : \A j \in DOMAIN Body(o, k) :
           Open(at, frames, k, j) /\ ~Open(at, frames2, k, j) =>
             (k = k0 /\ j = j0) \/ Body(o, k)[j].op = "other"
  PROVE  /\ Copies(o, WithImm(code, p, imm), at)
         /\ Immediates(o, WithImm(code, p, imm), at, frames2)
<1> DEFINE code2 == WithImm(code, p, imm)
<1>1. /\ code \in Seq(Instruction) /\ DOMAIN at \subseteq DOMAIN o.functions
      /\ at \in [DOMAIN at -> Nat]
      /\ \A k \in DOMAIN at : \A j \in DOMAIN Body(o, k) :
           at[k] + j \in DOMAIN code /\ Same(code[at[k] + j], Body(o, k)[j])
      /\ \A i \in DOMAIN code :
           \E k \in DOMAIN at : \E j \in DOMAIN Body(o, k) : i = at[k] + j
  BY Zenon DEF Copies
<1>2. p \in DOMAIN code
  BY <1>1
<1>3. /\ code2 \in Seq(Instruction) /\ DOMAIN code2 = DOMAIN code
      /\ \A q \in DOMAIN code : Same(code2[q], code[q])
      /\ \A q \in DOMAIN code \ {p} : code2[q].imm = code[q].imm
      /\ code2[p].imm = imm
  <2>1. OnlyImm(code, p, imm, code2)
    BY <1>1, <1>2, PatchedCode
  <2> HIDE DEF code2
  <2> QED
    BY <2>1, Zenon DEF OnlyImm
<1> HIDE DEF code2
<1>4. Copies(o, code2, at)
  <2>1. ASSUME NEW k \in DOMAIN at, NEW j \in DOMAIN Body(o, k)
        PROVE  at[k] + j \in DOMAIN code2 /\ Same(code2[at[k] + j], Body(o, k)[j])
    BY <1>1, <1>3 DEF Same
  <2> QED
    BY <1>1, <1>3, <2>1, Zenon DEF Copies
<1>5. ASSUME NEW k \in DOMAIN at, NEW j \in DOMAIN Body(o, k), at[k] + j = p
      PROVE  k = k0 /\ j = j0
  <2>1. Body(o, k)[j].from = Body(o, k0)[j0].from
    BY <1>1, <1>5 DEF Same
  <2> QED
    BY <1>1, <2>1, FromUnique
<1>6. Immediates(o, code2, at, frames2)
  <2>1. SUFFICES ASSUME NEW k \in DOMAIN at, NEW j \in DOMAIN Body(o, k)
        PROVE /\ Open(at, frames2, k, j) => code2[at[k] + j].imm = Body(o, k)[j].imm
              /\ ~Open(at, frames2, k, j) /\ Body(o, k)[j].op # "other" =>
                   /\ Body(o, k)[j].to \in DOMAIN at
                   /\ at[k] + j + code2[at[k] + j].imm = at[Body(o, k)[j].to]
    BY Zenon DEF Immediates
  <2>2. CASE k = k0 /\ j = j0
    <3>1. at[k0] \in Nat /\ at[Body(o, k0)[j0].to] \in Nat
      BY <1>1
    <3>2. j0 \in Nat
      <4>1. k0 \in DOMAIN o.functions
        BY <1>1
      <4>2. DOMAIN Body(o, k0) = 1 .. Len(Body(o, k0)) /\ Len(Body(o, k0)) \in Nat
        BY <4>1, ParsedCode
      <4> QED
        BY <4>2
    <3>3. at[k0] + j0 + imm = at[Body(o, k0)[j0].to]
      BY <3>1, <3>2
    <3> QED
      BY <1>3, <2>2, <3>3
  <2>3. CASE ~(k = k0 /\ j = j0)
    <3>1. at[k] + j \in DOMAIN code \ {p}
      BY <1>1, <1>5, <2>3
    <3>2. code2[at[k] + j].imm = code[at[k] + j].imm
      BY <1>3, <3>1
    <3>3. /\ Open(at, frames, k, j) => code[at[k] + j].imm = Body(o, k)[j].imm
          /\ ~Open(at, frames, k, j) /\ Body(o, k)[j].op # "other" =>
               /\ Body(o, k)[j].to \in DOMAIN at
               /\ at[k] + j + code[at[k] + j].imm = at[Body(o, k)[j].to]
      BY Zenon DEF Immediates
    <3> QED
      BY <2>3, <3>2, <3>3
  <2> QED
    BY <2>2, <2>3
<1> QED
  BY <1>4, <1>6 DEF code2

\* A function whose code is changed so.
FunWithImm(fun, p, imm) == [fun EXCEPT !.instructions[p].imm = imm]

\* Infos stay right.
LEMMA PatchedInfo ==
  ASSUME NEW o, NEW fun, NEW at, NEW p \in DOMAIN fun.instructions, NEW imm \in Int,
         Informed(o, fun, at)
  PROVE  Informed(o, FunWithImm(fun, p, imm), at)
<1> DEFINE fun2 == FunWithImm(fun, p, imm)
           code2 == WithImm(fun.instructions, p, imm)
<1>1. fun \in Function
  BY DEF Informed
<1>2. fun.instructions \in Seq(Instruction)
  BY <1>1 DEF Function
<1>3. /\ code2 \in Seq(Instruction) /\ DOMAIN code2 = DOMAIN fun.instructions
      /\ \A q \in DOMAIN fun.instructions : Same(code2[q], fun.instructions[q])
  <2>1. OnlyImm(fun.instructions, p, imm, code2)
    BY <1>2, PatchedCode
  <2> HIDE DEF code2
  <2> QED
    BY <2>1, Zenon DEF OnlyImm
<1>4. fun2 = [fun EXCEPT !.instructions = code2]
  BY DEF WithImm, FunWithImm
<1> HIDE DEF code2, fun2
<1>5. /\ fun2 \in Function /\ fun2.instructions = code2
      /\ fun2.func_info = fun.func_info /\ fun2.line_info = fun.line_info
  BY <1>1, <1>3, <1>4 DEF Function
<1>6. \A q \in DOMAIN fun.instructions : code2[q].from = fun.instructions[q].from
  BY <1>3 DEF Same
<1>7. {<<i - 1, fun2.instructions[i].from>> : i \in DOMAIN fun2.instructions}
        = {<<i - 1, fun.instructions[i].from>> : i \in DOMAIN fun.instructions}
  BY <1>3, <1>5, <1>6
<1>8. Informed(o, fun2, at)
  BY <1>5, <1>7 DEF Informed
<1> QED
  BY <1>8, Zenon DEF fun2

-----------------------------------------------------------------------------
(* Frames *)

\* What Frames says of the numbers in frames.
LEMMA FrameNumbers ==
  ASSUME NEW o, Parsed(o), NEW at, NEW frames, Frames(o, at, frames),
         DOMAIN at \subseteq DOMAIN o.functions, at \in [DOMAIN at -> Nat], frames # <<>>
  PROVE  /\ frames \in Seq(FrameType)
         /\ Len(frames) \in Nat \ {0} /\ DOMAIN frames = 1 .. Len(frames)
         /\ \A f \in DOMAIN frames :
              /\ frames[f] \in FrameType
              /\ frames[f].fun \in DOMAIN at /\ frames[f].start = at[frames[f].fun]
              /\ frames[f].start \in Nat /\ frames[f].next \in Nat
              /\ Len(Body(o, frames[f].fun)) \in Nat
              /\ frames[f].start <= frames[f].next
              /\ frames[f].next <= frames[f].start + Len(Body(o, frames[f].fun))
<1>1. frames \in Seq(FrameType)
  BY DEF Frames, FrameType
<1>2. Len(frames) \in Nat \ {0} /\ DOMAIN frames = 1 .. Len(frames)
  BY <1>1, EmptySeq, LenProperties
<1>3. ASSUME NEW f \in DOMAIN frames
      PROVE  /\ frames[f] \in FrameType
             /\ frames[f].fun \in DOMAIN at /\ frames[f].start = at[frames[f].fun]
             /\ frames[f].start \in Nat /\ frames[f].next \in Nat
             /\ Len(Body(o, frames[f].fun)) \in Nat
             /\ frames[f].start <= frames[f].next
             /\ frames[f].next <= frames[f].start + Len(Body(o, frames[f].fun))
  <2>1. frames[f] \in FrameType
    BY <1>1, <1>2, ElementOfSeq
  <2>2. /\ frames[f].fun \in DOMAIN at /\ frames[f].start = at[frames[f].fun]
        /\ frames[f].next \in frames[f].start .. frames[f].start + Len(Body(o, frames[f].fun))
    BY Zenon DEF Frames
  <2>3. frames[f].fun \in DOMAIN o.functions /\ frames[f].start \in Nat
    BY <2>2
  <2>4. Len(Body(o, frames[f].fun)) \in Nat
    BY <2>3, ParsedCode
  <2> QED
    BY <2>1, <2>2, <2>3, <2>4
<1> QED
  BY <1>1, <1>2, <1>3, Zenon

\* The last frame comes to instruction x.
MoveTo(frames, x) == [frames EXCEPT ![Len(frames)].next = x]

\* In frames2 it has, and is otherwise the same.
OnlyNext(frames, x, frames2) ==
  /\ frames2 # <<>> /\ Len(frames2) = Len(frames) /\ frames2[1].fun = frames[1].fun
  /\ frames2[Len(frames)].fun = frames[Len(frames)].fun
  /\ frames2[Len(frames)].start = frames[Len(frames)].start
  /\ frames2[Len(frames)].next = x

\* Of the last frame's function the instructions after x are open, of others the same as
\* before.
OpenAfter(o, at, frames, x, frames2) ==
  LET k == frames[Len(frames)].fun IN
  /\ \A j \in DOMAIN Body(o, k) : Open(at, frames2, k, j) <=> x < at[k] + j
  /\ \A l \in DOMAIN at : l # k =>
       \A j \in DOMAIN Body(o, l) : Open(at, frames2, l, j) <=> Open(at, frames, l, j)

\* The last frame moves on.
LEMMA Moved ==
  ASSUME NEW o, Parsed(o), NEW at, NEW frames, Frames(o, at, frames),
         DOMAIN at \subseteq DOMAIN o.functions, at \in [DOMAIN at -> Nat], frames # <<>>,
         NEW x \in Nat, frames[Len(frames)].start <= x,
         x <= frames[Len(frames)].start + Len(Body(o, frames[Len(frames)].fun))
  PROVE  /\ Frames(o, at, MoveTo(frames, x)) /\ OnlyNext(frames, x, MoveTo(frames, x))
         /\ OpenAfter(o, at, frames, x, MoveTo(frames, x))
<1> DEFINE frames2 == MoveTo(frames, x)
<1> DEFINE n == Len(frames)
<1>1. /\ frames \in Seq(FrameType) /\ n \in Nat \ {0} /\ DOMAIN frames = 1 .. n
      /\ \A f \in DOMAIN frames : frames[f] \in FrameType
      /\ frames[n].start \in Nat
      /\ Len(Body(o, frames[n].fun)) \in Nat
  BY FrameNumbers
<1> DEFINE top == [frames[n] EXCEPT !.next = x]
<1>2. top \in FrameType /\ top.fun = frames[n].fun /\ top.start = frames[n].start /\ top.next = x
  <2>1. n \in 1 .. n
    BY <1>1
  <2>2. frames[n] \in FrameType
    BY <1>1, <2>1
  <2> QED
    BY <2>2 DEF FrameType
<1>3. frames2 = [frames EXCEPT ![n] = top]
  BY DEF MoveTo
<1> HIDE DEF top, frames2
<1>4. frames2 \in Seq(FrameType) /\ Len(frames2) = n /\ DOMAIN frames2 = 1 .. n
  BY <1>1, <1>2, <1>3, ExceptSeq, LenProperties
<1>5. \A f \in 1 .. n : frames2[f] = IF f = n THEN top ELSE frames[f]
  BY <1>1, <1>3
<1>6. /\ \A f \in 1 .. n : frames2[f].fun = frames[f].fun /\ frames2[f].start = frames[f].start
      /\ \A f \in 1 .. n : f # n => frames2[f].next = frames[f].next
      /\ frames2[n].next = x
  BY <1>1, <1>2, <1>5
<1>7. Frames(o, at, frames2)
  <2>1. ASSUME NEW f \in 1 .. n
        PROVE  /\ frames2[f].fun \in DOMAIN at /\ frames2[f].start = at[frames2[f].fun]
               /\ frames2[f].next \in frames2[f].start
                                        .. frames2[f].start + Len(Body(o, frames2[f].fun))
    <3>1. /\ frames[f].fun \in DOMAIN at /\ frames[f].start = at[frames[f].fun]
          /\ frames[f].next \in frames[f].start
                                  .. frames[f].start + Len(Body(o, frames[f].fun))
      BY <1>1, Zenon DEF Frames
    <3>2. CASE f = n
      BY <1>1, <1>6, <3>1, <3>2
    <3>3. CASE f # n
      BY <1>6, <3>1, <3>3, Zenon
    <3> QED
      BY <3>2, <3>3
  <2>2. \A f, g \in 1 .. n : f # g => frames2[f].fun # frames2[g].fun
    <3>1. \A f, g \in 1 .. n : f # g => frames[f].fun # frames[g].fun
      BY <1>1, Zenon DEF Frames
    <3> QED
      BY <1>6, <3>1, Zenon
  <2>3. ASSUME NEW f \in 1 .. n, f + 1 \in 1 .. n
        PROVE  LET j == frames2[f].next - frames2[f].start + 1 IN
               /\ j \in DOMAIN Body(o, frames2[f].fun)
               /\ Body(o, frames2[f].fun)[j].op # "other"
               /\ Body(o, frames2[f].fun)[j].to = frames2[f + 1].fun
    <3>1. f # n
      BY <1>1, <2>3
    <3>2. LET j == frames[f].next - frames[f].start + 1 IN
          /\ j \in DOMAIN Body(o, frames[f].fun)
          /\ Body(o, frames[f].fun)[j].op # "other"
          /\ Body(o, frames[f].fun)[j].to = frames[f + 1].fun
      BY <1>1, <2>3, Zenon DEF Frames
    <3>3. /\ frames2[f].next = frames[f].next /\ frames2[f].start = frames[f].start
          /\ frames2[f].fun = frames[f].fun /\ frames2[f + 1].fun = frames[f + 1].fun
      BY <1>6, <2>3, <3>1
    <3> QED
      BY <3>2, <3>3
  <2> QED
    BY <1>4, <2>1, <2>2, <2>3, Zenon DEF Frames, FrameType
<1>8. ASSUME NEW l \in DOMAIN at, NEW j \in DOMAIN Body(o, l)
      PROVE  /\ l = frames[n].fun => (Open(at, frames2, l, j) <=> x < at[l] + j)
             /\ l # frames[n].fun => (Open(at, frames2, l, j) <=> Open(at, frames, l, j))
  <2>1. Open(at, frames2, l, j) <=>
          \E f \in 1 .. n : frames2[f].fun = l /\ frames2[f].next < at[l] + j
    BY <1>4, Zenon DEF Open
  <2>2. Open(at, frames, l, j) <=>
          \E f \in 1 .. n : frames[f].fun = l /\ frames[f].next < at[l] + j
    BY <1>1, Zenon DEF Open
  <2>3. CASE l = frames[n].fun
    <3>1. \A f \in 1 .. n : frames2[f].fun = l => f = n
      <4>1. \A f, g \in 1 .. n : f # g => frames[f].fun # frames[g].fun
        BY <1>1, Zenon DEF Frames
      <4>2. n \in 1 .. n
        BY <1>1
      <4> QED
        BY <1>6, <2>3, <4>1, <4>2, Zenon
    <3>2. n \in 1 .. n /\ frames2[n].fun = l /\ frames2[n].next = x
      BY <1>1, <1>6, <2>3
    <3> QED
      BY <2>1, <2>3, <3>1, <3>2, Zenon
  <2>4. CASE l # frames[n].fun
    <3>1. \A f \in 1 .. n : frames[f].fun = l => f # n
      BY <2>4, Zenon
    <3> QED
      BY <1>6, <2>1, <2>2, <2>4, <3>1, Zenon
  <2> QED
    BY <2>3, <2>4
<1>9. frames2 # <<>> /\ 1 \in 1 .. n /\ n \in 1 .. n
  BY <1>1, <1>4, EmptySeq
<1>10. frames[n].fun \in DOMAIN at
  BY FrameNumbers, <1>1, <1>9
<1> QED
  BY <1>4, <1>6, <1>7, <1>8, <1>9, <1>10, Zenon DEF frames2, OnlyNext, OpenAfter

\* frames2 lacks the last frame.
Shorter(frames, frames2) ==
  /\ frames2 # <<>> /\ Len(frames2) = Len(frames) - 1
  /\ \A f \in 1 .. Len(frames) - 1 : frames2[f] = frames[f]

\* The last frame is left.
LEMMA Popped ==
  ASSUME NEW o, Parsed(o), NEW at, NEW frames, Frames(o, at, frames),
         DOMAIN at \subseteq DOMAIN o.functions, at \in [DOMAIN at -> Nat], Len(frames) > 1,
         frames # <<>>
  PROVE  /\ Frames(o, at, Front(frames)) /\ Shorter(frames, Front(frames))
         /\ \A k \in DOMAIN at : \A j \in DOMAIN Body(o, k) :
              Open(at, Front(frames), k, j) <=>
                k # frames[Len(frames)].fun /\ Open(at, frames, k, j)
<1> DEFINE n == Len(frames)
           frames2 == Front(frames)
<1>1. /\ frames \in Seq(FrameType) /\ n \in Nat \ {0} /\ DOMAIN frames = 1 .. n
  BY FrameNumbers
<1>2. /\ frames2 \in Seq(FrameType) /\ Len(frames2) = n - 1
      /\ \A f \in 1 .. n - 1 : frames2[f] = frames[f]
  <2>1. 1 \in 1 .. n + 1 /\ n - 1 \in 1 - 1 .. n /\ n - 1 - 1 + 1 = n - 1 /\ 1 <= n - 1 + 1
    BY <1>1
  <2>2. frames2 = SubSeq(frames, 1, n - 1)
    BY DEF Front
  <2>3. /\ frames2 \in Seq(FrameType) /\ Len(frames2) = n - 1
        /\ \A f \in 1 .. n - 1 : frames2[f] = frames[1 + f - 1]
    BY <1>1, <2>1, <2>2, SubSeqProperties
  <2>4. \A f \in 1 .. n - 1 : 1 + f - 1 = f
    BY <1>1
  <2> QED
    BY <2>3, <2>4
<1> HIDE DEF frames2
<1>3. DOMAIN frames2 = 1 .. n - 1 /\ frames2 # <<>> /\ DOMAIN frames2 \subseteq DOMAIN frames
  BY <1>1, <1>2, LenProperties, EmptySeq
<1>4. Frames(o, at, frames2)
  <2>1. ASSUME NEW f \in DOMAIN frames2
        PROVE  /\ frames2[f].fun \in DOMAIN at /\ frames2[f].start = at[frames2[f].fun]
               /\ frames2[f].next \in frames2[f].start
                                        .. frames2[f].start + Len(Body(o, frames2[f].fun))
    BY <1>2, <1>3, Zenon DEF Frames
  <2>2. \A f, g \in DOMAIN frames2 : f # g => frames2[f].fun # frames2[g].fun
    <3>1. \A f, g \in DOMAIN frames : f # g => frames[f].fun # frames[g].fun
      BY Zenon DEF Frames
    <3> QED
      BY <1>2, <1>3, <3>1, Zenon
  <2>3. ASSUME NEW f \in DOMAIN frames2, f + 1 \in DOMAIN frames2
        PROVE  LET j == frames2[f].next - frames2[f].start + 1 IN
               /\ j \in DOMAIN Body(o, frames2[f].fun)
               /\ Body(o, frames2[f].fun)[j].op # "other"
               /\ Body(o, frames2[f].fun)[j].to = frames2[f + 1].fun
    <3>1. LET j == frames[f].next - frames[f].start + 1 IN
          /\ j \in DOMAIN Body(o, frames[f].fun)
          /\ Body(o, frames[f].fun)[j].op # "other"
          /\ Body(o, frames[f].fun)[j].to = frames[f + 1].fun
      BY <1>3, <2>3, Zenon DEF Frames
    <3>2. frames2[f] = frames[f] /\ frames2[f + 1] = frames[f + 1]
      BY <1>2, <1>3, <2>3, Zenon
    <3> QED
      BY <3>1, <3>2
  <2> QED
    BY <1>2, <2>1, <2>2, <2>3, Zenon DEF Frames, FrameType
<1>5. ASSUME NEW k \in DOMAIN at, NEW j \in DOMAIN Body(o, k)
      PROVE  Open(at, frames2, k, j) <=> k # frames[n].fun /\ Open(at, frames, k, j)
  <2>1. Open(at, frames2, k, j) <=>
          \E f \in 1 .. n - 1 : frames[f].fun = k /\ frames[f].next < at[k] + j
    BY <1>2, <1>3, Zenon DEF Open
  <2>2. Open(at, frames, k, j) <=>
          \E f \in 1 .. n : frames[f].fun = k /\ frames[f].next < at[k] + j
    BY <1>1, Zenon DEF Open
  <2>3. \A f \in 1 .. n - 1 : frames[f].fun # frames[n].fun
    <3>1. \A f, g \in 1 .. n : f # g => frames[f].fun # frames[g].fun
      BY <1>1, Zenon DEF Frames
    <3>2. n \in 1 .. n /\ \A f \in 1 .. n - 1 : f \in 1 .. n /\ f # n
      BY <1>1
    <3> QED
      BY <3>1, <3>2, Zenon
  <2>4. 1 .. n = (1 .. n - 1) \union {n}
    BY <1>1
  <2> QED
    BY <2>1, <2>2, <2>3, <2>4, Zenon
<1> QED
  BY <1>2, <1>3, <1>4, <1>5, Zenon DEF frames2, Shorter

\* One function more starts in the program, at the end of it.
StartsWith(at, l, end) == [k \in DOMAIN at \union {l} |-> IF k = l THEN end ELSE at[k]]

\* A frame for that function.
Enter(frames, l, end) == Append(frames, [fun |-> l, start |-> end, next |-> end])

\* A function is entered that the program has not had yet: it starts where the program
\* ended, and all of its instructions are open.
LEMMA Pushed ==
  ASSUME NEW o, Parsed(o), NEW at, NEW frames, Frames(o, at, frames),
         DOMAIN at \subseteq DOMAIN o.functions, at \in [DOMAIN at -> Nat], frames # <<>>,
         NEW l \in DOMAIN o.functions, l \notin DOMAIN at, NEW end \in Nat,
         LET top == frames[Len(frames)]
             j == top.next - top.start + 1
         IN /\ j \in DOMAIN Body(o, top.fun) /\ Body(o, top.fun)[j].op # "other"
            /\ Body(o, top.fun)[j].to = l
  PROVE  LET at2 == StartsWith(at, l, end)
             frames2 == Enter(frames, l, end)
         IN /\ Frames(o, at2, frames2) /\ frames2 # <<>> /\ frames2[1] = frames[1]
            /\ \A k \in DOMAIN at2 : \A j \in DOMAIN Body(o, k) :
                 Open(at2, frames2, k, j) <=> (k = l \/ (k \in DOMAIN at /\ Open(at, frames, k, j)))
<1> USE DEF StartsWith, Enter
<1> DEFINE n == Len(frames)
           frame == [fun |-> l, start |-> end, next |-> end]
           at2 == [k \in DOMAIN at \union {l} |-> IF k = l THEN end ELSE at[k]]
           frames2 == Append(frames, frame)
<1>1. /\ frames \in Seq(FrameType) /\ n \in Nat \ {0} /\ DOMAIN frames = 1 .. n
      /\ \A f \in DOMAIN frames : frames[f].fun \in DOMAIN at /\ frames[f].start \in Nat
  BY FrameNumbers
<1>2. l \in Places /\ Len(Body(o, l)) \in Nat /\ DOMAIN Body(o, l) = 1 .. Len(Body(o, l))
  BY ParsedCode
<1>3. frame \in FrameType /\ frame.fun = l /\ frame.start = end /\ frame.next = end
  BY <1>2 DEF FrameType
<1> HIDE DEF frame
<1>4. /\ frames2 \in Seq(FrameType) /\ Len(frames2) = n + 1
      /\ \A f \in 1 .. n : frames2[f] = frames[f]
      /\ frames2[n + 1] = frame
  BY <1>1, <1>3, AppendProperties
<1>5. /\ DOMAIN at2 = DOMAIN at \union {l} /\ at2[l] = end
      /\ \A k \in DOMAIN at : at2[k] = at[k]
  OBVIOUS
<1> HIDE DEF frames2, at2
<1>6. /\ DOMAIN frames2 = 1 .. n + 1 /\ frames2 # <<>>
      /\ 1 .. n + 1 = (1 .. n) \union {n + 1} /\ 1 \in 1 .. n /\ n \in 1 .. n
      /\ n + 1 \notin 1 .. n
  BY <1>1, <1>4, LenProperties, EmptySeq
<1>7. Frames(o, at2, frames2)
  <2>1. ASSUME NEW f \in DOMAIN frames2
        PROVE  /\ frames2[f].fun \in DOMAIN at2 /\ frames2[f].start = at2[frames2[f].fun]
               /\ frames2[f].next \in frames2[f].start
                                        .. frames2[f].start + Len(Body(o, frames2[f].fun))
    <3>1. CASE f \in 1 .. n
      <4>1. /\ frames[f].fun \in DOMAIN at /\ frames[f].start = at[frames[f].fun]
            /\ frames[f].next \in frames[f].start
                                    .. frames[f].start + Len(Body(o, frames[f].fun))
        BY <1>1, <3>1, Zenon DEF Frames
      <4>2. frames2[f] = frames[f] /\ at2[frames[f].fun] = at[frames[f].fun]
        BY <1>4, <1>5, <3>1, <4>1
      <4> QED
        BY <1>5, <4>1, <4>2
    <3>2. CASE f = n + 1
      <4>1. end \in end .. end + Len(Body(o, l))
        BY <1>2
      <4> QED
        BY <1>3, <1>4, <1>5, <3>2, <4>1
    <3> QED
      BY <1>6, <3>1, <3>2
  <2>2. ASSUME NEW f \in DOMAIN frames2, NEW g \in DOMAIN frames2, f # g
        PROVE  frames2[f].fun # frames2[g].fun
    <3>1. \A h \in 1 .. n : frames2[h].fun # l
      BY <1>1, <1>4
    <3>2. frames2[n + 1].fun = l
      BY <1>3, <1>4
    <3>3. f \in 1 .. n /\ g \in 1 .. n => frames2[f].fun # frames2[g].fun
      BY <1>1, <1>4, <2>2, Zenon DEF Frames
    <3> QED
      BY <1>6, <2>2, <3>1, <3>2, <3>3
  <2>3. ASSUME NEW f \in DOMAIN frames2, f + 1 \in DOMAIN frames2
        PROVE  LET j == frames2[f].next - frames2[f].start + 1 IN
               /\ j \in DOMAIN Body(o, frames2[f].fun)
               /\ Body(o, frames2[f].fun)[j].op # "other"
               /\ Body(o, frames2[f].fun)[j].to = frames2[f + 1].fun
    <3>1. f \in 1 .. n /\ (f = n \/ f + 1 \in 1 .. n)
      BY <1>1, <1>6, <2>3
    <3>2. CASE f = n
      <4>1. frames2[f] = frames[n] /\ frames2[f + 1].fun = l
        BY <1>3, <1>4, <3>1, <3>2
      <4> QED
        BY <4>1
    <3>3. CASE f + 1 \in 1 .. n
      <4>1. LET j == frames[f].next - frames[f].start + 1 IN
            /\ j \in DOMAIN Body(o, frames[f].fun)
            /\ Body(o, frames[f].fun)[j].op # "other"
            /\ Body(o, frames[f].fun)[j].to = frames[f + 1].fun
        BY <1>1, <3>1, <3>3, Zenon DEF Frames
      <4>2. frames2[f] = frames[f] /\ frames2[f + 1] = frames[f + 1]
        BY <1>4, <3>1, <3>3
      <4> QED
        BY <4>1, <4>2
    <3> QED
      BY <3>1, <3>2, <3>3
  <2> QED
    BY <1>4, <2>1, <2>2, <2>3, Zenon DEF Frames, FrameType
<1>8. ASSUME NEW k \in DOMAIN at2, NEW j \in DOMAIN Body(o, k)
      PROVE  Open(at2, frames2, k, j) <=> (k = l \/ (k \in DOMAIN at /\ Open(at, frames, k, j)))
  <2>1. Open(at2, frames2, k, j) <=>
          \E f \in 1 .. n + 1 : frames2[f].fun = k /\ frames2[f].next < at2[k] + j
    BY <1>6, Zenon DEF Open
  <2>2. Open(at, frames, k, j) <=>
          \E f \in 1 .. n : frames[f].fun = k /\ frames[f].next < at[k] + j
    BY <1>1, Zenon DEF Open
  <2>3. CASE k = l
    <3>1. end < at2[k] + j
      BY <1>2, <1>5, <2>3
    <3>2. frames2[n + 1].fun = k /\ frames2[n + 1].next < at2[k] + j /\ n + 1 \in 1 .. n + 1
      BY <1>3, <1>4, <1>6, <2>3, <3>1
    <3> QED
      BY <2>1, <2>3, <3>2, Zenon
  <2>4. CASE k # l
    <3>1. k \in DOMAIN at /\ at2[k] = at[k] /\ frames2[n + 1].fun # k
      BY <1>3, <1>4, <1>5, <2>4
    <3>2. \A f \in 1 .. n : frames2[f] = frames[f]
      BY <1>4
    <3> QED
      BY <1>6, <2>1, <2>2, <2>4, <3>1, <3>2, Zenon
  <2> QED
    BY <2>3, <2>4
<1>9. frames2[1] = frames[1]
  BY <1>4, <1>6
<1> QED
  BY <1>6, <1>7, <1>8, <1>9, Zenon DEF frames2, at2, frame

-----------------------------------------------------------------------------
(* A function is copied *)

\* What two sequences one after the other are.
LEMMA AppendedSeq ==
  ASSUME NEW S, NEW s \in Seq(S), NEW t \in Seq(S)
  PROVE  /\ s \o t \in Seq(S) /\ Len(s \o t) = Len(s) + Len(t)
         /\ \A i \in DOMAIN s : i \in DOMAIN (s \o t) /\ (s \o t)[i] = s[i]
         /\ \A j \in DOMAIN t : Len(s) + j \in DOMAIN (s \o t) /\ (s \o t)[Len(s) + j] = t[j]
         /\ \A i \in DOMAIN (s \o t) : i \in DOMAIN s \/ \E j \in DOMAIN t : i = Len(s) + j
<1> DEFINE u == s \o t
           n == Len(s)
           m == Len(t)
<1>1. n \in Nat /\ DOMAIN s = 1 .. n /\ m \in Nat /\ DOMAIN t = 1 .. m
  BY LenProperties
<1>2. /\ u \in Seq(S) /\ Len(u) = n + m
      /\ \A i \in 1 .. n + m : u[i] = IF i <= n THEN s[i] ELSE t[i - n]
  BY ConcatProperties
<1>3. DOMAIN u = 1 .. n + m
  BY <1>2, LenProperties
<1> HIDE DEF u, n, m
<1>4. ASSUME NEW i \in 1 .. n PROVE i \in 1 .. n + m /\ u[i] = s[i]
  BY <1>1, <1>2
<1>5. ASSUME NEW j \in 1 .. m PROVE n + j \in 1 .. n + m /\ u[n + j] = t[j]
  <2>1. n + j \in 1 .. n + m /\ ~(n + j <= n) /\ (n + j) - n = j
    BY <1>1
  <2>2. ASSUME NEW i \in 1 .. n + m, ~(i <= n) PROVE u[i] = t[i - n]
    BY <1>2, <2>2
  <2>3. u[n + j] = t[(n + j) - n]
    BY <2>1, <2>2
  <2> QED
    BY <2>1, <2>3
<1>6. ASSUME NEW i \in 1 .. n + m, i \notin 1 .. n PROVE \E j \in 1 .. m : i = n + j
  <2>1. i - n \in 1 .. m /\ i = n + (i - n)
    BY <1>1, <1>6
  <2> QED
    BY <2>1
<1> QED
  BY <1>1, <1>2, <1>3, <1>4, <1>5, <1>6 DEF u, n, m

\* With its code appended, the program is still a copy.
LEMMA AppendedCode ==
  ASSUME NEW o, Parsed(o), NEW code, NEW at, Copies(o, code, at),
         NEW l \in DOMAIN o.functions, l \notin DOMAIN at,
         NEW at2, at2 = StartsWith(at, l, Len(code))
  PROVE  Copies(o, code \o Body(o, l), at2)
<1> DEFINE end == Len(code)
           body == Body(o, l)
           code2 == code \o body
<1>1. /\ code \in Seq(Instruction) /\ DOMAIN at \subseteq DOMAIN o.functions
      /\ at \in [DOMAIN at -> Nat]
      /\ \A k \in DOMAIN at : \A j \in DOMAIN Body(o, k) :
           at[k] + j \in DOMAIN code /\ Same(code[at[k] + j], Body(o, k)[j])
      /\ \A i \in DOMAIN code :
           \E k \in DOMAIN at : \E j \in DOMAIN Body(o, k) : i = at[k] + j
  BY Zenon DEF Copies
<1>2. body \in Seq(Instruction) /\ end \in Nat
  BY <1>1, ParsedCode, LenProperties
<1>3. /\ code2 \in Seq(Instruction)
      /\ \A i \in DOMAIN code : i \in DOMAIN code2 /\ code2[i] = code[i]
      /\ \A j \in DOMAIN body : end + j \in DOMAIN code2 /\ code2[end + j] = body[j]
      /\ \A i \in DOMAIN code2 : i \in DOMAIN code \/ \E j \in DOMAIN body : i = end + j
  BY <1>1, <1>2, AppendedSeq
<1>4. /\ DOMAIN at2 = DOMAIN at \union {l} /\ at2[l] = end
      /\ \A k \in DOMAIN at : at2[k] = at[k]
      /\ at2 \in [DOMAIN at2 -> Nat]
  BY <1>1, <1>2 DEF StartsWith
<1> HIDE DEF body, end, code2
<1>5. ASSUME NEW k \in DOMAIN at2, NEW j \in DOMAIN Body(o, k)
      PROVE  at2[k] + j \in DOMAIN code2 /\ Same(code2[at2[k] + j], Body(o, k)[j])
  <2>1. CASE k = l
    BY <1>3, <1>4, <2>1 DEF Same, body
  <2>2. CASE k \in DOMAIN at
    BY <1>1, <1>3, <1>4, <2>2
  <2> QED
    BY <1>4, <2>1, <2>2
<1>6. ASSUME NEW i \in DOMAIN code2
      PROVE  \E k \in DOMAIN at2 : \E j \in DOMAIN Body(o, k) : i = at2[k] + j
  <2>1. CASE i \in DOMAIN code
    <3>1. PICK k \in DOMAIN at : \E j \in DOMAIN Body(o, k) : i = at[k] + j
      BY <1>1, <2>1
    <3>2. k \in DOMAIN at2 /\ at2[k] = at[k]
      BY <1>4
    <3> QED
      BY <3>1, <3>2
  <2>2. CASE i \notin DOMAIN code
    <3>1. PICK j \in DOMAIN body : i = end + j
      BY <1>3, <2>2
    <3>2. l \in DOMAIN at2 /\ j \in DOMAIN Body(o, l) /\ i = at2[l] + j
      BY <1>4, <3>1 DEF body
    <3> QED
      BY <3>2
  <2> QED
    BY <2>1, <2>2
<1>7. DOMAIN at2 \subseteq DOMAIN o.functions
  BY <1>1, <1>4
<1>8. Copies(o, code2, at2)
  BY <1>3, <1>4, <1>5, <1>6, <1>7, Zenon DEF Copies
<1> QED
  BY <1>8 DEF code2, body

\* The copy is open, so immediates are right.
LEMMA AppendedImmediates ==
  ASSUME NEW o, Parsed(o), NEW code, NEW at, Copies(o, code, at),
         NEW l \in DOMAIN o.functions, l \notin DOMAIN at,
         NEW frames, NEW frames2, Immediates(o, code, at, frames),
         NEW at2, at2 = StartsWith(at, l, Len(code)),
         \A j \in DOMAIN Body(o, l) : Open(at2, frames2, l, j),
         \A k \in DOMAIN at : \A j \in DOMAIN Body(o, k) :
           Open(at2, frames2, k, j) => Open(at, frames, k, j),
         \A k \in DOMAIN at : \A j \in DOMAIN Body(o, k) :
           Open(at, frames, k, j) /\ ~Open(at2, frames2, k, j) => Body(o, k)[j].op = "other"
  PROVE  Immediates(o, code \o Body(o, l), at2, frames2)
<1> DEFINE code2 == code \o Body(o, l)
<1>1. /\ \A i \in DOMAIN code : i \in DOMAIN code2 /\ code2[i] = code[i]
      /\ \A j \in DOMAIN Body(o, l) : code2[Len(code) + j] = Body(o, l)[j]
  <2>1. code \in Seq(Instruction) /\ Body(o, l) \in Seq(Instruction)
    BY ParsedCode DEF Copies
  <2> QED
    BY <2>1, AppendedSeq
<1>2. /\ DOMAIN at2 = DOMAIN at \union {l} /\ at2[l] = Len(code)
      /\ \A k \in DOMAIN at : at2[k] = at[k]
  BY DEF StartsWith
<1> HIDE DEF code2
<1>3. SUFFICES ASSUME NEW k \in DOMAIN at2, NEW j \in DOMAIN Body(o, k)
      PROVE /\ Open(at2, frames2, k, j) => code2[at2[k] + j].imm = Body(o, k)[j].imm
            /\ ~Open(at2, frames2, k, j) /\ Body(o, k)[j].op # "other" =>
                 /\ Body(o, k)[j].to \in DOMAIN at2
                 /\ at2[k] + j + code2[at2[k] + j].imm = at2[Body(o, k)[j].to]
  BY Zenon DEF Immediates, code2
<1>4. CASE k = l
  BY <1>1, <1>2, <1>4
<1>5. CASE k \in DOMAIN at
  <2>1. at[k] + j \in DOMAIN code
    BY <1>5, Zenon DEF Copies
  <2>2. code2[at2[k] + j] = code[at[k] + j] /\ at2[k] = at[k]
    BY <1>1, <1>2, <1>5, <2>1
  <2>3. /\ Open(at, frames, k, j) => code[at[k] + j].imm = Body(o, k)[j].imm
        /\ ~Open(at, frames, k, j) /\ Body(o, k)[j].op # "other" =>
             /\ Body(o, k)[j].to \in DOMAIN at
             /\ at[k] + j + code[at[k] + j].imm = at[Body(o, k)[j].to]
    BY <1>5, Zenon DEF Immediates
  <2> HIDE DEF Open
  <2> QED
    BY <1>2, <1>5, <2>2, <2>3
<1> QED
  BY <1>2, <1>4, <1>5

\* Sequences of infos say together what each says.
LEMMA SaidConcat ==
  ASSUME NEW s \in Seq(Info), NEW t \in Seq(Info)
  PROVE  Said(s \o t) = Said(s) \union Said(t)
<1>1. Range(s \o t) = Range(s) \union Range(t)
  BY RangeConcatenation
<1> QED
  BY <1>1 DEF Said

\* The infos of function g once they are moved with its code.
MovedFuncs(g, end) == [i \in DOMAIN g.func_info |-> [g.func_info[i] EXCEPT !.insn_off = end]]

\* line_info as LinkInfo moves it.
MovedLines(g, end) ==
  [i \in DOMAIN g.line_info |->
     [g.line_info[i] EXCEPT !.insn_off = end + @ - g.line_info[1].insn_off]]

\* What the lines of code say when it starts at `end`.
LinesOf(code, end) == {<<(end + i) - 1, code[i].from>> : i \in DOMAIN code}

\* A record of which one number is changed.
LEMMA ChangedInfo ==
  ASSUME NEW info \in Info, NEW n \in Int, NEW info2, info2 = [info EXCEPT !.insn_off = n]
  PROVE  info2 \in Info /\ info2.insn_off = n /\ info2.of = info.of
BY DEF Info

\* func_info names the function at the start of the copy.
LEMMA MovedFuncsSay ==
  ASSUME NEW o, Parsed(o), NEW l \in DOMAIN o.functions, NEW end \in Nat
  PROVE  LET g == o.functions[l] IN
         /\ MovedFuncs(g, end) \in Seq(Info)
         /\ g.func_info = <<>> => MovedFuncs(g, end) = <<>>
         /\ g.func_info # <<>> => Said(MovedFuncs(g, end)) = {<<end, l>>}
<1> DEFINE g == o.functions[l]
           funcs == MovedFuncs(g, end)
<1>1. g \in Function
  BY ParsedCode
<1>2. g.func_info \in Seq(Info)
  BY <1>1 DEF Function
<1>3. DOMAIN g.func_info = 1 .. Len(g.func_info) /\ Len(g.func_info) \in Nat
  BY <1>2, LenProperties
<1>4. \A i \in DOMAIN g.func_info : g.func_info[i] \in Info
  BY <1>2, <1>3, ElementOfSeq
<1>5. g.func_info # <<>> => g.func_info = <<[insn_off |-> g.func_info[1].insn_off, of |-> l]>>
  BY DEF Parsed, InfoParsed
<1> HIDE DEF g
<1>6. DOMAIN funcs = DOMAIN g.func_info
      /\ \A i \in DOMAIN g.func_info : funcs[i] = [g.func_info[i] EXCEPT !.insn_off = end]
  BY Zenon DEF MovedFuncs
<1> HIDE DEF funcs
<1>7. ASSUME NEW i \in DOMAIN g.func_info
      PROVE  funcs[i] \in Info /\ funcs[i].insn_off = end /\ funcs[i].of = g.func_info[i].of
  <2>1. g.func_info[i] \in Info /\ funcs[i] = [g.func_info[i] EXCEPT !.insn_off = end]
    BY <1>4, <1>6, Zenon
  <2> QED
    BY <2>1, ChangedInfo
<1>8. funcs = [i \in 1 .. Len(g.func_info) |-> funcs[i]]
  BY <1>3, <1>6, Zenon DEF MovedFuncs, funcs
<1>9. funcs \in Seq(Info)
  BY <1>3, <1>7, <1>8, IsASeq
<1>10. g.func_info = <<>> => funcs = <<>>
  <2>1. ASSUME g.func_info = <<>> PROVE funcs = <<>>
    <3>1. Len(g.func_info) = 0
      BY <2>1
    <3>2. DOMAIN funcs = 1 .. 0
      BY <1>3, <1>6, <3>1
    <3>3. Len(funcs) \in Nat /\ DOMAIN funcs = 1 .. Len(funcs)
      BY <1>9, LenProperties
    <3>4. Len(funcs) = 0
      BY <3>2, <3>3
    <3> QED
      BY <1>9, <3>4, EmptySeq
  <2> QED
    BY <2>1
<1>11. ASSUME g.func_info # <<>> PROVE Said(funcs) = {<<end, l>>}
  <2>1. DOMAIN g.func_info = {1} /\ g.func_info[1].of = l
    BY <1>5, <1>11
  <2>2. DOMAIN funcs = {1} /\ funcs[1].insn_off = end /\ funcs[1].of = l
    BY <1>6, <1>7, <2>1
  <2> QED
    BY <2>2 DEF Said, Range
<1> QED
  BY <1>9, <1>10, <1>11 DEF funcs, g

\* line_info names each instruction at its copy.
LEMMA MovedLinesSay ==
  ASSUME NEW o, Parsed(o), NEW l \in DOMAIN o.functions, NEW end \in Nat
  PROVE  /\ MovedLines(o.functions[l], end) \in Seq(Info)
         /\ o.functions[l].func_info # <<>> =>
              Said(MovedLines(o.functions[l], end)) = LinesOf(Body(o, l), end)
<1> DEFINE g == o.functions[l]
           body == Body(o, l)
           base == g.func_info[1].insn_off
           lines == MovedLines(g, end)
<1>1. g \in Function
  BY ParsedCode
<1>2. g.line_info \in Seq(Info) /\ g.func_info \in Seq(Info)
  BY <1>1 DEF Function
<1>3. DOMAIN g.line_info = 1 .. Len(g.line_info) /\ Len(g.line_info) \in Nat
  BY <1>2, LenProperties
<1>4. \A i \in DOMAIN g.line_info : g.line_info[i] \in Info
  BY <1>2, <1>3, ElementOfSeq
<1>5. g.func_info # <<>> =>
        g.line_info = [i \in DOMAIN body |-> [insn_off |-> base + i - 1, of |-> body[i].from]]
  BY DEF Parsed, InfoParsed, Body
<1>6. g.func_info # <<>> => base \in Int
  <2>1. ASSUME g.func_info # <<>> PROVE base \in Int
    <3>1. 1 \in 1 .. Len(g.func_info)
      BY <1>2, <2>1, EmptySeq, LenProperties
    <3>2. g.func_info[1] \in Info
      BY <1>2, <3>1, ElementOfSeq
    <3> QED
      BY <3>2 DEF Info
  <2> QED
    BY <2>1
<1>7. DOMAIN body = 1 .. Len(body) /\ Len(body) \in Nat \ {0}
  BY ParsedCode
<1> HIDE DEF g, base, body
<1>8. /\ DOMAIN lines = DOMAIN g.line_info
      /\ \A i \in DOMAIN g.line_info :
           lines[i] = [g.line_info[i] EXCEPT
                         !.insn_off = end + g.line_info[i].insn_off - g.line_info[1].insn_off]
  BY DEF MovedLines
<1>9. lines = [i \in 1 .. Len(g.line_info) |-> lines[i]]
  BY <1>3, <1>8, Zenon DEF MovedLines, lines
<1> HIDE DEF lines
<1>10. ASSUME NEW i \in DOMAIN g.line_info
       PROVE  /\ lines[i] \in Info /\ lines[i].of = g.line_info[i].of
              /\ lines[i].insn_off = end + g.line_info[i].insn_off - g.line_info[1].insn_off
  <2>1. 1 \in DOMAIN g.line_info
    BY <1>3
  <2>2. g.line_info[i] \in Info /\ g.line_info[1] \in Info
    BY <1>4, <2>1
  <2>3. end + g.line_info[i].insn_off - g.line_info[1].insn_off \in Int
    BY <2>2 DEF Info
  <2> DEFINE off == end + g.line_info[i].insn_off - g.line_info[1].insn_off
             info == g.line_info[i]
  <2>4. lines[i] = [info EXCEPT !.insn_off = off]
    BY <1>8, Zenon
  <2>5. info \in Info /\ off \in Int
    BY <2>2, <2>3, Zenon
  <2> HIDE DEF off, info
  <2>6. lines[i] \in Info /\ lines[i].insn_off = off /\ lines[i].of = info.of
    BY <2>4, <2>5 DEF Info
  <2> QED
    BY <2>6, Zenon DEF off, info
<1>11. lines \in Seq(Info)
  <2>1. \A i \in 1 .. Len(g.line_info) : lines[i] \in Info
    BY <1>3, <1>10, Zenon
  <2> HIDE DEF g
  <2> QED
    BY <1>3, <1>9, <2>1
<1>12. ASSUME g.func_info # <<>>
       PROVE  Said(lines) = LinesOf(body, end)
  <2>1. DOMAIN lines = DOMAIN body
    BY <1>5, <1>8, <1>12
  <2>2. ASSUME NEW i \in DOMAIN body
        PROVE  lines[i].insn_off = (end + i) - 1 /\ lines[i].of = body[i].from
    <3>1. 1 \in DOMAIN body /\ i \in Nat
      BY <1>7
    <3>2. /\ g.line_info[i].insn_off = base + i - 1 /\ g.line_info[i].of = body[i].from
          /\ g.line_info[1].insn_off = base + 1 - 1 /\ i \in DOMAIN g.line_info
      BY <1>5, <1>12, <3>1
    <3>3. /\ lines[i].insn_off = end + (base + i - 1) - (base + 1 - 1)
          /\ lines[i].of = body[i].from
      BY <1>10, <3>2
    <3> QED
      BY <1>6, <1>12, <3>1, <3>3
  <2>3. Said(lines) = {<<lines[i].insn_off, lines[i].of>> : i \in DOMAIN lines}
    BY DEF Said, Range
  <2> QED
    BY <2>1, <2>2, <2>3 DEF LinesOf
<1> QED
  BY <1>11, <1>12 DEF g, lines, body

\* Function fun with function l of the object after it.
Extended(o, fun, l, end) ==
  [fun EXCEPT !.instructions = @ \o Body(o, l),
              !.func_info = @ \o MovedFuncs(o.functions[l], end),
              !.line_info = @ \o MovedLines(o.functions[l], end)]

\* Infos that are moved with the code stay right.
LEMMA AppendedInfo ==
  ASSUME NEW o, Parsed(o), NEW fun, NEW at, Informed(o, fun, at),
         NEW l \in DOMAIN o.functions, l \notin DOMAIN at, NEW end, end = Len(fun.instructions),
         NEW at2, at2 = StartsWith(at, l, end),
         (fun.func_info = <<>>) <=> (o.functions[l].func_info = <<>>),
         NEW fun2, fun2 = Extended(o, fun, l, end)
  PROVE  Informed(o, fun2, at2) /\ fun2.instructions = fun.instructions \o Body(o, l)
<1> DEFINE code == fun.instructions
           body == Body(o, l)
           funcs == MovedFuncs(o.functions[l], end)
           lines == MovedLines(o.functions[l], end)
<1>1. fun \in Function
  BY DEF Informed
<1>2. /\ code \in Seq(Instruction) /\ fun.func_info \in Seq(Info) /\ fun.line_info \in Seq(Info)
      /\ body \in Seq(Instruction)
  BY <1>1, ParsedCode DEF Function
<1>3. end \in Nat
  BY <1>2, LenProperties
<1>4. funcs \in Seq(Info) /\ lines \in Seq(Info)
  BY <1>3, MovedFuncsSay, MovedLinesSay
<1>5. /\ code \o body \in Seq(Instruction)
      /\ fun.func_info \o funcs \in Seq(Info) /\ fun.line_info \o lines \in Seq(Info)
  BY <1>2, <1>4, ConcatProperties
<1>6. /\ fun2 \in Function /\ fun2.instructions = code \o body
      /\ fun2.func_info = fun.func_info \o funcs /\ fun2.line_info = fun.line_info \o lines
  <2> HIDE DEF funcs, lines, body
  <2> QED
    BY <1>1, <1>5 DEF Function, Extended, funcs, lines, body
<1>7. SUFFICES Informed(o, fun2, at2)
  BY <1>6
<1>8. /\ \A k \in DOMAIN at : (fun.func_info = <<>>) <=> (o.functions[k].func_info = <<>>)
      /\ DOMAIN at2 = DOMAIN at \union {l} /\ at2[l] = end
      /\ \A k \in DOMAIN at : at2[k] = at[k]
  BY DEF Informed, StartsWith
<1>9. \A k \in DOMAIN at2 : (fun.func_info = <<>>) <=> (o.functions[k].func_info = <<>>)
  BY <1>8
<1>10. CASE fun.func_info = <<>>
  <2>1. funcs = <<>>
    BY <1>3, <1>10, MovedFuncsSay
  <2>2. fun.func_info \o funcs = <<>>
    BY <1>10, <2>1
  <2>3. fun2.func_info = <<>>
    BY <1>6, <2>2
  <2> QED
    BY <1>6, <1>9, <1>10, <2>3, Zenon DEF Informed
<1>11. CASE fun.func_info # <<>>
  <2>1. /\ Said(funcs) = {<<end, l>>}
        /\ Said(lines) = LinesOf(body, end)
    <3>1. o.functions[l].func_info # <<>>
      BY <1>11
    <3>2. Said(funcs) = {<<end, l>>}
      BY <1>3, <3>1, MovedFuncsSay, Zenon
    <3>3. Said(lines) = LinesOf(body, end)
      BY <1>3, <3>1, MovedLinesSay
    <3> QED
      BY <3>2, <3>3
  <2>2. /\ Said(fun.func_info) = {<<at[k], k>> : k \in DOMAIN at}
        /\ Said(fun.line_info) = {<<i - 1, code[i].from>> : i \in DOMAIN code}
    BY <1>11, Zenon DEF Informed
  <2>3. /\ Said(fun.func_info \o funcs) = Said(fun.func_info) \union Said(funcs)
        /\ Said(fun.line_info \o lines) = Said(fun.line_info) \union Said(lines)
    BY <1>2, <1>4, SaidConcat
  <2>4. Said(fun2.func_info) = {<<at2[k], k>> : k \in DOMAIN at2}
    <3>1. {<<at2[k], k>> : k \in DOMAIN at2} = {<<at[k], k>> : k \in DOMAIN at} \union {<<end, l>>}
      BY <1>8
    <3> QED
      BY <1>6, <2>1, <2>2, <2>3, <3>1, Zenon
  <2>5. Said(fun2.line_info) =
          {<<i - 1, fun2.instructions[i].from>> : i \in DOMAIN fun2.instructions}
    <3> DEFINE code2 == code \o body
    <3>0. body \in Seq(Instruction) /\ code \in Seq(Instruction)
      BY <1>2
    <3>1. /\ \A i \in DOMAIN code : i \in DOMAIN code2 /\ code2[i] = code[i]
          /\ \A j \in DOMAIN body : end + j \in DOMAIN code2 /\ code2[end + j] = body[j]
          /\ \A i \in DOMAIN code2 : i \in DOMAIN code \/ \E j \in DOMAIN body : i = end + j
      <4> HIDE DEF body
      <4> QED
        BY <3>0, AppendedSeq
    <3> HIDE DEF code2, code, body
    <3>2. {<<i - 1, code2[i].from>> : i \in DOMAIN code2}
            = {<<i - 1, code[i].from>> : i \in DOMAIN code}
                \union LinesOf(body, end)
      BY <3>1 DEF LinesOf
    <3>3. fun2.instructions = code2
      BY <1>6 DEF code2
    <3>4. Said(fun2.line_info) = Said(fun.line_info) \union Said(lines)
      BY <1>6, <2>3, Zenon
    <3>5. Said(fun2.line_info) = {<<i - 1, code2[i].from>> : i \in DOMAIN code2}
      BY <2>1, <2>2, <3>2, <3>4, Zenon
    <3> QED
      BY <3>3, <3>5, Zenon
  <2>6. fun2.func_info # <<>>
    <3>1. <<end, l>> \in Said(fun2.func_info)
      BY <1>6, <2>1, <2>3
    <3>2. Said(<<>>) = {}
      BY DEF Said, Range
    <3> QED
      BY <3>1, <3>2
  <2> QED
    BY <1>6, <1>9, <1>11, <2>4, <2>5, <2>6, Zenon DEF Informed
<1> QED
  BY <1>10, <1>11

-----------------------------------------------------------------------------
(* What the steps of one link have in common *)

\* What is said of an object stays true while the object is the same.
LEMMA SameObject ==
  ASSUME object' = object
  PROVE  /\ Programs' = Programs /\ Regular' = Regular /\ Parsed(object)' = Parsed(object)
         /\ \A keys : Callees(keys)' = Callees(keys)
         /\ \A p : Reached(p)' = Reached(p)
<1>1. Programs' = Programs
  BY DEF Programs
<1>2. \A keys : Callees(keys)' = Callees(keys)
  BY DEF Callees
<1>3. \A p : Reached(p)' = Reached(p)
  BY <1>2 DEF Reached
<1>4. Exposed' = Exposed
  BY <1>1, <1>2 DEF Exposed
<1>5. Misled' = Misled
  BY DEF Misled
<1> QED
  BY <1>1, <1>2, <1>3, <1>4, <1>5 DEF Regular

\* Code is that of program p and then one copy of each function that p reaches.
LinkedAs(o, code, p, reached) ==
  LET own == Len(Body(o, p))
      copied == {code[i].from : i \in own + 1 .. Len(code)}
  IN /\ SubSeq(code, 1, own) # <<>> /\ code[1].from = p
     /\ copied = UNION {{ins.from : ins \in Range(Body(o, k))} : k \in reached \ {Nowhere}}
     /\ Len(code) = own + Cardinality(copied)

\* What is said of linked programs stays true while no program becomes linked.
LEMMA SamePrograms ==
  ASSUME UNCHANGED <<object, functions, todo>>
  PROVE  /\ CallsLand' = CallsLand /\ (LinkedExactly => LinkedExactly')
         /\ InfoMatches' = InfoMatches /\ FunctionsKept' = FunctionsKept
<1>1. Programs' = Programs /\ (\A p : Reached(p)' = Reached(p))
      /\ (\A keys : Callees(keys)' = Callees(keys))
  BY SameObject
<1>2. object' = object /\ functions' = functions /\ todo' = todo
  OBVIOUS
<1>3. CallsLand' = CallsLand
  BY <1>1, <1>2 DEF CallsLand
<1>4. LinkedExactly => LinkedExactly'
  <2>1. LinkedExactly => \A p \in Programs \ todo :
                           LinkedAs(object, functions[p].instructions, p, Reached(p))
    BY Zenon DEF LinkedExactly, LinkedAs, Body
  <2>2. (\A p \in Programs' \ todo' :
           LinkedAs(object', functions'[p].instructions, p, Reached(p)')) => LinkedExactly'
    BY Zenon DEF LinkedExactly, LinkedAs, Body
  <2> QED
    BY <1>1, <1>2, <2>1, <2>2, Zenon
<1>5. InfoMatches' = InfoMatches
  BY <1>1, <1>2 DEF InfoMatches
<1>6. FunctionsKept' = FunctionsKept
  BY <1>1, <1>2 DEF FunctionsKept
<1> QED
  BY <1>3, <1>4, <1>5, <1>6

\* Functions in the program end where it ends or before, and only one starts at 0.
LEMMA StartRange ==
  ASSUME NEW o, Parsed(o), NEW code, NEW at, Copies(o, code, at), NEW k \in DOMAIN at
  PROVE  /\ at[k] + Len(Body(o, k)) <= Len(code) /\ Len(code) \in Nat /\ at[k] \in Nat
         /\ \A m \in DOMAIN at : at[m] = 0 /\ k # m => at[k] \in 1 .. Len(code) - 1
<1>1. /\ code \in Seq(Instruction) /\ DOMAIN at \subseteq DOMAIN o.functions
      /\ at \in [DOMAIN at -> Nat]
      /\ \A l \in DOMAIN at : \A j \in DOMAIN Body(o, l) :
           at[l] + j \in DOMAIN code /\ Same(code[at[l] + j], Body(o, l)[j])
  BY Zenon DEF Copies
<1>2. \A l \in DOMAIN at : /\ Len(Body(o, l)) \in Nat \ {0}
                           /\ DOMAIN Body(o, l) = 1 .. Len(Body(o, l))
  BY <1>1, ParsedCode
<1>3. Len(code) \in Nat /\ DOMAIN code = 1 .. Len(code)
  BY <1>1, LenProperties
<1>4. at[k] \in Nat
  BY <1>1
<1>5. at[k] + Len(Body(o, k)) \in DOMAIN code
  <2>1. Len(Body(o, k)) \in DOMAIN Body(o, k)
    BY <1>2
  <2> QED
    BY <1>1, <2>1, Zenon
<1>6. at[k] + Len(Body(o, k)) <= Len(code)
  BY <1>3, <1>5
<1>7. ASSUME NEW m \in DOMAIN at, at[m] = 0, k # m
      PROVE  at[k] \in 1 .. Len(code) - 1
  <2>1. at[k] # 0
    <3>1. SUFFICES ASSUME at[k] = 0 PROVE FALSE
      OBVIOUS
    <3>2. 1 \in DOMAIN Body(o, k) /\ 1 \in DOMAIN Body(o, m)
      BY <1>2
    <3>3. Same(code[at[k] + 1], Body(o, k)[1]) /\ Same(code[at[m] + 1], Body(o, m)[1])
      BY <1>1, <3>2, Zenon
    <3>4. Body(o, k)[1].from = Body(o, m)[1].from
      BY <1>7, <3>1, <3>3 DEF Same
    <3>5. k \in DOMAIN o.functions /\ m \in DOMAIN o.functions
      BY <1>1
    <3> QED
      BY <1>7, <3>2, <3>4, <3>5, FromUnique
  <2> QED
    BY <1>2, <1>3, <1>4, <1>6, <2>1
<1> QED
  BY <1>3, <1>4, <1>6, <1>7

\* A step within a link keeps the invariant if it keeps what is said of the link.
LEMMA WithinLink ==
  ASSUME IInv, UNCHANGED <<object, functions, todo>>, main' \in Programs,
         result' = "running", Linking'
  PROVE  IInv'
<1>1. object' = object /\ functions' = functions /\ todo' = todo
  OBVIOUS
<1>2. /\ Parsed(object) /\ Regular /\ TypeOK /\ FunctionsKept
      /\ CallsLand /\ LinkedExactly /\ InfoMatches
  BY Zenon DEF IInv
<1>3. /\ Parsed(object)' /\ Regular' /\ FunctionsKept'
      /\ CallsLand' /\ LinkedExactly' /\ InfoMatches'
  BY <1>1, <1>2, SameObject, SamePrograms
<1>4. OnlyRealErrors'
  BY DEF OnlyRealErrors
<1>5. /\ Copies(object', program'.instructions, Starts') /\ Frames(object', Starts', stack')
      /\ main' \notin DOMAIN linked'
  BY DEF Linking
<1> DEFINE at == Starts'
           code == program'.instructions
<1>6. /\ DOMAIN at = DOMAIN linked' \union {main'}
      /\ at[main'] = 0 /\ \A k \in DOMAIN linked' : at[k] = linked'[k]
  BY <1>5 DEF Starts
<1> HIDE DEF at, code
<1>7. Parsed(object') /\ Copies(object', code, at) /\ Frames(object', at, stack')
  BY <1>1, <1>2, <1>5 DEF at, code
<1>8. DOMAIN at \subseteq DOMAIN object'.functions /\ at \in [DOMAIN at -> Nat]
  BY <1>7, Zenon DEF Copies
<1>9. DOMAIN linked' \subseteq DOMAIN functions'
  BY <1>1, <1>2, <1>6, <1>8 DEF TypeOK
<1>10. \A k \in DOMAIN linked' : linked'[k] \in 1 .. Len(code) - 1
  <2>1. ASSUME NEW k \in DOMAIN linked' PROVE linked'[k] \in 1 .. Len(code) - 1
    <3>1. k \in DOMAIN at /\ main' \in DOMAIN at /\ at[main'] = 0 /\ k # main'
      BY <1>5, <1>6
    <3>2. at[k] \in 1 .. Len(code) - 1
      BY <1>7, <3>1, StartRange
    <3> QED
      BY <1>6, <3>2
  <2> QED
    BY <2>1
<1>11. ASSUME NEW f \in DOMAIN stack'
       PROVE  /\ stack'[f].fun \in DOMAIN functions' /\ stack'[f].start \in Nat
              /\ stack'[f].next \in stack'[f].start .. Len(code)
  <2>1. /\ stack'[f].fun \in DOMAIN at /\ stack'[f].start = at[stack'[f].fun]
        /\ stack'[f].start \in Nat /\ stack'[f].next \in Nat
        /\ stack'[f].start <= stack'[f].next
        /\ stack'[f].next <= stack'[f].start + Len(Body(object', stack'[f].fun))
        /\ Len(Body(object', stack'[f].fun)) \in Nat
    BY <1>7, <1>8, FrameNumbers
  <2>2. at[stack'[f].fun] + Len(Body(object', stack'[f].fun)) <= Len(code) /\ Len(code) \in Nat
    BY <1>7, <2>1, StartRange
  <2>3. stack'[f].next \in stack'[f].start .. Len(code)
    BY <2>1, <2>2
  <2>4. stack'[f].fun \in DOMAIN functions'
    BY <1>1, <1>2, <1>8, <2>1 DEF TypeOK
  <2> QED
    BY <2>1, <2>3, <2>4
<1>12. TypeOK'
  <2>1. /\ DOMAIN functions' = DOMAIN object'.functions /\ todo' \subseteq Programs'
        /\ main' \in Programs' \union {Nowhere}
    BY <1>1, <1>2, SameObject DEF TypeOK
  <2> QED
    BY <1>9, <1>10, <1>11, <2>1 DEF TypeOK, code
<1> QED
  BY <1>3, <1>4, <1>12 DEF IInv

-----------------------------------------------------------------------------
(* The steps *)

\* Nothing is linked in the beginning.
LEMMA InitIInv ==
  ASSUME AllObjects = FALSE, Init
  PROVE  IInv
<1>1. /\ object \in Objects /\ Regular /\ functions = object.functions /\ todo = Programs
      /\ main = Nowhere /\ linked = <<>> /\ stack = <<>> /\ result = "running"
  BY DEF Init
<1>2. Parsed(object)
  BY <1>1, ObjectsAssumption
<1>3. DOMAIN linked = {} /\ DOMAIN stack = {} /\ Programs \ todo = {}
  BY <1>1
<1>4. TypeOK
  BY <1>1, <1>3 DEF TypeOK
<1>5. FunctionsKept
  BY <1>1 DEF FunctionsKept
<1>6. CallsLand /\ LinkedExactly /\ InfoMatches
  BY <1>3, Zenon DEF CallsLand, LinkedExactly, InfoMatches
<1>7. OnlyRealErrors
  BY <1>1 DEF OnlyRealErrors
<1> QED
  BY <1>1, <1>2, <1>4, <1>5, <1>6, <1>7 DEF IInv

\* A program is a copy of itself, all of which is open.
LEMMA Started ==
  ASSUME NEW o, Parsed(o), NEW p \in DOMAIN o.functions, p[1] \notin TextSections,
         NEW at, at = [k \in {p} |-> 0],
         NEW frames, frames = <<[fun |-> p, start |-> 0, next |-> 0]>>
  PROVE  /\ Copies(o, Body(o, p), at) /\ Frames(o, at, frames)
         /\ Immediates(o, Body(o, p), at, frames) /\ Informed(o, o.functions[p], at)
<1> DEFINE code == Body(o, p)
<1>1. /\ DOMAIN at = {p} /\ at[p] = 0 /\ at \in [DOMAIN at -> Nat]
      /\ code \in Seq(Instruction) /\ DOMAIN code = 1 .. Len(code)
      /\ Len(code) \in Nat \ {0} /\ p \in Places /\ o.functions[p] \in Function
      /\ code = o.functions[p].instructions
  BY ParsedCode DEF Body
<1>2. \A j \in DOMAIN code : at[p] + j = j
  BY <1>1
<1> HIDE DEF code
<1>3. Copies(o, code, at)
  <2>1. \A k \in DOMAIN at : \A j \in DOMAIN Body(o, k) :
          at[k] + j \in DOMAIN code /\ Same(code[at[k] + j], Body(o, k)[j])
    BY <1>1, <1>2 DEF Same, code
  <2>2. \A i \in DOMAIN code : \E k \in DOMAIN at : \E j \in DOMAIN Body(o, k) : i = at[k] + j
    BY <1>1, <1>2 DEF code
  <2> QED
    BY <1>1, <2>1, <2>2 DEF Copies
<1>4. /\ frames \in Seq([fun : Places, start : Nat, next : Nat])
      /\ DOMAIN frames = {1} /\ frames[1].fun = p /\ frames[1].start = 0 /\ frames[1].next = 0
  BY <1>1
<1>5. Frames(o, at, frames)
  <2>1. frames[1].next \in frames[1].start .. frames[1].start + Len(Body(o, frames[1].fun))
    BY <1>1, <1>4 DEF code
  <2> QED
    BY <1>1, <1>4, <2>1 DEF Frames
<1>6. Immediates(o, code, at, frames)
  <2>1. \A j \in DOMAIN code : Open(at, frames, p, j)
    BY <1>1, <1>2, <1>4 DEF Open
  <2> QED
    BY <1>1, <1>2, <2>1 DEF Immediates, code
<1>7. Informed(o, o.functions[p], at)
  <2> DEFINE fun == o.functions[p]
  <2>1. ASSUME fun.func_info # <<>>
        PROVE  /\ Said(fun.func_info) = {<<at[k], k>> : k \in DOMAIN at}
               /\ Said(fun.line_info) =
                    {<<i - 1, fun.instructions[i].from>> : i \in DOMAIN fun.instructions}
    <3>1. InfoParsed(p, fun)
      BY DEF Parsed
    <3>2. /\ fun.func_info = <<[insn_off |-> 0, of |-> p]>>
          /\ fun.line_info = [i \in DOMAIN fun.instructions |->
                                [insn_off |-> 0 + i - 1, of |-> fun.instructions[i].from]]
      BY <2>1, <3>1 DEF InfoParsed
    <3> HIDE DEF fun
    <3>3. Said(fun.func_info) = {<<0, p>>}
      BY <3>2 DEF Said, Range
    <3>4. Said(fun.line_info) =
            {<<i - 1, fun.instructions[i].from>> : i \in DOMAIN fun.instructions}
      <4>1. DOMAIN fun.instructions = 1 .. Len(code)
        BY <1>1 DEF fun
      <4>2. \A i \in DOMAIN fun.instructions : 0 + i - 1 = i - 1
        BY <1>1, <4>1
      <4>3. fun.line_info = [i \in DOMAIN fun.instructions |->
                               [insn_off |-> i - 1, of |-> fun.instructions[i].from]]
        BY <3>2, <4>2
      <4> QED
        BY <4>3 DEF Said, Range
    <3>5. {<<at[k], k>> : k \in DOMAIN at} = {<<0, p>>}
      BY <1>1
    <3> QED
      BY <3>3, <3>4, <3>5, Zenon
  <2> QED
    BY <1>1, <2>1 DEF Informed
<1> QED
  BY <1>3, <1>5, <1>6, <1>7 DEF code

\* The link of a program begins.
LEMMA BeginStep ==
  ASSUME IInv, NEW p \in todo, Begin(p)
  PROVE  IInv'
<1>1. /\ result = "running" /\ stack = <<>> /\ main' = p /\ program' = functions[p]
      /\ linked' = <<>> /\ stack' = <<Frame(p, functions[p].instructions)>>
      /\ object' = object /\ functions' = functions /\ todo' = todo /\ result' = result
  BY DEF Begin
<1>2. /\ Parsed(object) /\ TypeOK /\ FunctionsKept
      /\ p \in Programs /\ p \in DOMAIN object.functions /\ p[1] \notin TextSections
      /\ DOMAIN functions = DOMAIN object.functions
  BY DEF IInv, TypeOK, Programs
<1>3. functions[p] = object.functions[p]
  BY <1>2 DEF FunctionsKept
<1>4. Starts' = [k \in {p} |-> 0]
  BY <1>1 DEF Starts
<1>5. stack' = <<[fun |-> p, start |-> 0, next |-> 0]>>
  <2>1. Len(functions[p].instructions) - Len(functions[p].instructions) = 0
    BY <1>2, <1>3, ParsedCode DEF Body
  <2> QED
    BY <1>1, <2>1 DEF Frame
<1>6. /\ Copies(object, program'.instructions, Starts') /\ Frames(object, Starts', stack')
      /\ Immediates(object, program'.instructions, Starts', stack')
      /\ Informed(object, program', Starts')
  <2>1. program' = object.functions[p] /\ program'.instructions = Body(object, p)
    BY <1>1, <1>3 DEF Body
  <2> QED
    BY <1>2, <1>4, <1>5, <2>1, Started
<1>7. \A k \in DOMAIN Starts' : functions'[k] = object'.functions[k]
  BY <1>1, <1>3, <1>4
<1>8. /\ main' \in todo' /\ main' \notin DOMAIN linked' /\ DOMAIN linked' = {}
      /\ stack'[1].fun = main' /\ program' = object'.functions[main']
  BY <1>1, <1>3, <1>5
<1>9. Linking'
  BY <1>1, <1>6, <1>7, <1>8 DEF Linking
<1> QED
  BY <1>1, <1>2, <1>9, WithinLink

\* The state is the same, but that linking may have failed.
LEMMA SameLink ==
  ASSUME IInv, UNCHANGED <<object, functions, todo, main, program, linked, stack>>,
         result' \in {result, "failed"}, OnlyRealErrors'
  PROVE  IInv'
<1>1. /\ object' = object /\ functions' = functions /\ todo' = todo /\ main' = main
      /\ program' = program /\ linked' = linked /\ stack' = stack
  OBVIOUS
<1>2. /\ Parsed(object)' /\ Regular' /\ FunctionsKept'
      /\ CallsLand' /\ LinkedExactly' /\ InfoMatches'
  BY <1>1, SameObject, SamePrograms DEF IInv
<1>3. TypeOK'
  <2>1. Programs' = Programs
    BY SameObject
  <2> QED
    BY <1>1, <2>1 DEF IInv, TypeOK
<1>4. stack' # <<>> => Linking'
  <2>1. Starts' = Starts
    BY <1>1 DEF Starts
  <2>2. Reached(main)' = Reached(main) /\ Callees({main})' = Callees({main})
    BY <1>1 DEF Reached, Callees
  <2> QED
    BY <1>1, <2>1, <2>2 DEF IInv, Linking
<1> QED
  BY <1>2, <1>3, <1>4 DEF IInv

\* A program that calls nothing reaches nothing.
LEMMA NoCallees ==
  ASSUME NEW p, Callees({p}) = {}
  PROVE  Reached(p) = {}
<1>1. Callees({}) = {}
  BY DEF Callees
<1>2. Callees({p}) \union Callees({}) \subseteq {}
  BY <1>1
<1> QED
  BY <1>2, ReachedLeast

\* What IInv says of the callee of the instruction that is next.
LEMMA CalleeFacts ==
  ASSUME IInv, NEW i, Relocates(i), Callee(i) \in DOMAIN functions
  PROVE  /\ Callee(i) = Body(object, Top.fun)[i - Top.start + 1].to
         /\ Callee(i) \in DOMAIN object.functions /\ Callee(i) \in Reached(main) \ {Nowhere}
         /\ functions[Callee(i)] = object.functions[Callee(i)]
         /\ Callee(i) # main
         /\ (program.func_info = <<>>) <=> (object.functions[main].func_info = <<>>)
<1> DEFINE callee == Body(object, Top.fun)[i - Top.start + 1].to
<1>1. /\ stack # <<>> /\ Callee(i) = callee /\ callee \in Callees({Top.fun})
      /\ callee \in Reached(main)
  BY RelocatesFacts
<1> HIDE DEF callee
<1>2. /\ Parsed(object) /\ Regular /\ Linking /\ main \in Programs /\ main \in DOMAIN Starts
      /\ DOMAIN functions = DOMAIN object.functions /\ Len(stack) \in DOMAIN stack
      /\ Top = stack[Len(stack)]
  BY <1>1, LinkingFacts
<1>3. Top.fun \in DOMAIN object.functions
  BY <1>1, <1>2, FrameFacts
<1>4. callee \in DOMAIN object.functions /\ callee # Nowhere
  BY <1>1, <1>2, ParsedCode
<1>5. functions[callee] = object.functions[callee]
  BY <1>1, <1>2, <1>3, <1>4 DEF IInv, FunctionsKept
<1>6. callee # main
  <2>1. SUFFICES ASSUME callee = main PROVE FALSE
    OBVIOUS
  <2>2. Callees({main}) # {}
    BY <1>1, <2>1, NoCallees, <1>2
  <2> QED
    BY <1>1, <1>2, <1>3, <2>1, <2>2 DEF Regular, Exposed
<1>7. (program.func_info = <<>>) <=> (object.functions[main].func_info = <<>>)
  BY <1>2 DEF Linking, Informed
<1>8. callee \in Reached(main) \ {Nowhere}
  BY <1>1, <1>4
<1> QED
  BY <1>1, <1>4, <1>5, <1>6, <1>7, <1>8, Zenon DEF callee

\* The error is real: the callee is not in the object.
LEMMA UnknownFunctionStep ==
  ASSUME IInv, NEW i, UnknownFunction(i)
  PROVE  IInv'
<1>1. /\ Relocates(i) /\ Callee(i) \notin DOMAIN functions
      /\ UNCHANGED <<object, functions, todo, main, program, linked, stack>>
      /\ result' = "failed"
  BY DEF UnknownFunction, Fail
<1>2. Nowhere \in Reached(main)
  BY <1>1, RelocatesFacts
<1>3. OnlyRealErrors'
  <2>1. Reached(main)' = Reached(main)
    BY <1>1 DEF Reached, Callees
  <2> QED
    BY <1>2, <2>1 DEF OnlyRealErrors
<1> QED
  BY <1>1, <1>3, SameLink

\* The error is real: one of the two has func_info.
LEMMA FunctionInfoMismatchStep ==
  ASSUME IInv, NEW i, FunctionInfoMismatch(i)
  PROVE  IInv'
<1>1. /\ Relocates(i) /\ Callee(i) \in DOMAIN functions /\ Mismatch(i)
      /\ UNCHANGED <<object, functions, todo, main, program, linked, stack>>
      /\ result' = "failed"
  BY DEF FunctionInfoMismatch, Fail
<1>2. /\ Callee(i) \in Reached(main) /\ functions[Callee(i)] = object.functions[Callee(i)]
      /\ (program.func_info = <<>>) <=> (object.functions[main].func_info = <<>>)
  BY <1>1, CalleeFacts
<1>3. (object.functions[Callee(i)].func_info = <<>>) # (object.functions[main].func_info = <<>>)
  BY <1>1, <1>2 DEF Mismatch
<1>4. OnlyRealErrors'
  <2>1. Reached(main)' = Reached(main) /\ object' = object /\ main' = main
    BY <1>1 DEF Reached, Callees
  <2>2. \E k \in Reached(main)' :
          (object'.functions[k].func_info = <<>>) # (object'.functions[main'].func_info = <<>>)
    BY <1>2, <1>3, <2>1
  <2> QED
    BY <2>2, Zenon DEF OnlyRealErrors
<1> QED
  BY <1>1, <1>4, SameLink

\* Which instructions of the last frame are open.
LEMMA OpenTop ==
  ASSUME NEW o, NEW at, NEW frames, Frames(o, at, frames), frames # <<>>, NEW j
  PROVE  LET top == frames[Len(frames)]
         IN  Open(at, frames, top.fun, j) <=> top.next < at[top.fun] + j
<1>1. Len(frames) \in DOMAIN frames
  <2>1. frames \in Seq([fun : Places, start : Nat, next : Nat])
    BY DEF Frames
  <2> QED
    BY <2>1, EmptySeq, LenProperties
<1>2. \A f \in DOMAIN frames : frames[f].fun = frames[Len(frames)].fun => f = Len(frames)
  BY <1>1, Zenon DEF Frames
<1> QED
  BY <1>1, <1>2, Zenon DEF Open

\* What is said of a link in progress.
LinkRight(o, fun, at, frames) ==
  /\ Copies(o, fun.instructions, at) /\ Frames(o, at, frames)
  /\ Immediates(o, fun.instructions, at, frames) /\ Informed(o, fun, at)

\* The instructions of function k that come between are no calls or references.
Quiet(o, at, k, next, p) ==
  \A j \in DOMAIN Body(o, k) :
    next < at[k] + j /\ at[k] + j < p => Body(o, k)[j].op = "other"

\* The last frame comes next to the call which is instruction p of the program, and imm is
\* the distance of its callee.
ComesTo(o, at, frames, p, imm) ==
  LET top == frames[Len(frames)] IN
  \E j \in DOMAIN Body(o, top.fun) :
    /\ p = at[top.fun] + j /\ top.next < p /\ Quiet(o, at, top.fun, top.next, p)
    /\ Body(o, top.fun)[j].to \in DOMAIN at /\ p + imm = at[Body(o, top.fun)[j].to]

\* The call gets that distance, and the frame moves on.
LEMMA Patched ==
  ASSUME NEW o, Parsed(o), NEW fun, NEW at, NEW frames, LinkRight(o, fun, at, frames),
         frames # <<>>, NEW p \in Nat, NEW imm \in Int, ComesTo(o, at, frames, p, imm)
  PROVE  /\ LinkRight(o, FunWithImm(fun, p, imm), at, MoveTo(frames, p))
         /\ OnlyNext(frames, p, MoveTo(frames, p))
<1> DEFINE top == frames[Len(frames)]
           k == top.fun
<1>0. PICK j \in DOMAIN Body(o, k) :
             /\ p = at[k] + j /\ top.next < p /\ Quiet(o, at, k, top.next, p)
             /\ Body(o, k)[j].to \in DOMAIN at /\ p + imm = at[Body(o, k)[j].to]
  BY DEF ComesTo
<1> DEFINE frames2 == MoveTo(frames, p)
           code == fun.instructions
<1>1. /\ Copies(o, code, at) /\ Frames(o, at, frames) /\ Immediates(o, code, at, frames)
      /\ Informed(o, fun, at)
  BY DEF LinkRight
<1>2. DOMAIN at \subseteq DOMAIN o.functions /\ at \in [DOMAIN at -> Nat]
  BY <1>1, Zenon DEF Copies
<1>3. /\ Len(frames) \in DOMAIN frames /\ k \in DOMAIN at /\ top.start = at[k]
      /\ at[k] \in Nat /\ top.next \in Nat
  BY <1>1, <1>2, FrameNumbers
<1>4. Len(Body(o, k)) \in Nat /\ DOMAIN Body(o, k) = 1 .. Len(Body(o, k))
  BY <1>2, <1>3, ParsedCode
<1>5. top.start <= p /\ p <= top.start + Len(Body(o, k))
  BY <1>0, <1>3, <1>4
<1>6. /\ Frames(o, at, frames2) /\ OnlyNext(frames, p, frames2)
      /\ OpenAfter(o, at, frames, p, frames2)
  BY <1>1, <1>2, <1>5, Moved
<1>7. /\ \A m \in DOMAIN Body(o, k) : Open(at, frames2, k, m) <=> p < at[k] + m
      /\ \A l \in DOMAIN at : l # k => \A m \in DOMAIN Body(o, l) :
           Open(at, frames2, l, m) <=> Open(at, frames, l, m)
  BY <1>6, Zenon DEF OpenAfter
<1>8. \A m : Open(at, frames, k, m) <=> top.next < at[k] + m
  BY <1>1, OpenTop
<1> HIDE DEF frames2, top, k
<1>9. ~Open(at, frames2, k, j)
  BY <1>0, <1>3, <1>4, <1>7
<1>10. ASSUME NEW l \in DOMAIN at, NEW m \in DOMAIN Body(o, l), Open(at, frames2, l, m)
      PROVE  Open(at, frames, l, m)
  <2>1. CASE l = k
    <3>1. p < at[k] + m
      BY <1>7, <1>10, <2>1
    <3>2. m \in Int
      BY <1>4, <2>1
    <3>3. top.next < at[k] + m
      BY <1>0, <1>3, <3>1, <3>2
    <3> QED
      BY <1>8, <2>1, <3>3, Zenon
  <2>2. CASE l # k
    BY <1>7, <1>10, <2>2
  <2> QED
    BY <2>1, <2>2
<1>11. ASSUME NEW l \in DOMAIN at, NEW m \in DOMAIN Body(o, l),
              Open(at, frames, l, m) /\ ~Open(at, frames2, l, m)
       PROVE  (l = k /\ m = j) \/ Body(o, l)[m].op = "other"
  <2>1. l = k
    BY <1>7, <1>11
  <2>2. top.next < at[k] + m /\ ~(p < at[k] + m)
    BY <1>7, <1>8, <1>11, <2>1, Zenon
  <2>3. m = j \/ at[k] + m < p
    BY <1>0, <1>3, <1>4, <2>1, <2>2
  <2> QED
    BY <1>0, <2>1, <2>2, <2>3, Zenon DEF Quiet
<1>12. /\ \A l \in DOMAIN at : \A m \in DOMAIN Body(o, l) :
            Open(at, frames2, l, m) => Open(at, frames, l, m)
       /\ \A l \in DOMAIN at : \A m \in DOMAIN Body(o, l) :
            Open(at, frames, l, m) /\ ~Open(at, frames2, l, m) =>
              (l = k /\ m = j) \/ Body(o, l)[m].op = "other"
  BY <1>10, <1>11, Zenon
<1>13. /\ Copies(o, WithImm(code, p, imm), at)
       /\ Immediates(o, WithImm(code, p, imm), at, frames2)
  BY <1>1, <1>3, <1>9, <1>12, <1>0, PatchedImmediates
<1>14. p \in DOMAIN code
  BY <1>1, <1>3, <1>0, Zenon DEF Copies
<1>15. Informed(o, FunWithImm(fun, p, imm), at)
  BY <1>1, <1>14, PatchedInfo, Zenon
<1>16. FunWithImm(fun, p, imm).instructions = WithImm(code, p, imm)
  <2>1. fun \in Function
    BY <1>1 DEF Informed
  <2> QED
    BY <2>1 DEF Function, FunWithImm, WithImm
<1> QED
  BY <1>6, <1>13, <1>15, <1>16 DEF LinkRight, frames2

\* A patch keeps the invariant.
LEMMA StillLinking ==
  ASSUME IInv, stack # <<>>, UNCHANGED <<object, functions, todo, main, linked>>,
         result' = "running", LinkRight(object, program', Starts, stack'),
         stack'[1].fun = main, Reached(main) # {}
  PROVE  IInv'
<1>1. /\ object' = object /\ functions' = functions /\ todo' = todo /\ main' = main
      /\ linked' = linked
  OBVIOUS
<1>2. Linking /\ main \in Programs
  BY LinkingFacts
<1>3. Starts' = Starts /\ Reached(main)' = Reached(main) /\ Callees({main})' = Callees({main})
  BY <1>1 DEF Starts, Reached, Callees
<1>4. Callees({main}) # {}
  BY NoCallees
<1>5. Linking'
  BY <1>1, <1>2, <1>3, <1>4 DEF Linking, LinkRight
<1> QED
  BY <1>1, <1>2, <1>5, WithinLink

\* A call of a function that the program has is pointed at its copy.
LEMMA LinkAgainStep ==
  ASSUME IInv, NEW i, LinkAgain(i)
  PROVE  IInv'
<1> DEFINE callee == Callee(i)
           k == Top.fun
           j == i - Top.start + 1
           p == i + 1
           imm == linked[callee] - i - 1
<1>1. /\ Relocates(i) /\ callee \in DOMAIN functions /\ callee \in DOMAIN linked
      /\ program' = FunWithImm(program, p, imm) /\ stack' = MoveTo(stack, p)
      /\ UNCHANGED <<object, functions, todo, main, linked, result>> /\ result = "running"
  BY DEF LinkAgain, Links, IsLinked, Relocates, Patch, Distance, Advance, FunWithImm, MoveTo
<1>2. /\ stack # <<>> /\ i \in Nat /\ Top.next <= i /\ j \in DOMAIN Body(object, k)
      /\ p = Starts[k] + j /\ Body(object, k)[j].to \in Reached(main)
      /\ \A m \in DOMAIN Body(object, k) :
           Top.next < Starts[k] + m /\ Starts[k] + m < p => Body(object, k)[m].op = "other"
  BY <1>1, RelocatesFacts
<1>3. callee = Body(object, k)[j].to
  BY <1>1, CalleeFacts
<1>4. /\ Parsed(object) /\ Linking /\ Top = stack[Len(stack)] /\ Len(stack) \in DOMAIN stack
      /\ callee \in DOMAIN Starts /\ Starts[callee] = linked[callee] /\ Starts[callee] \in Nat
      /\ stack[1].fun = main
  BY <1>1, <1>2, LinkingFacts DEF Linking
<1>5. p \in Nat /\ imm \in Int /\ p + imm = Starts[callee] /\ Top.next < p
  <2>1. Top.next \in Nat
    BY <1>2, <1>4, FrameFacts
  <2>2. linked[callee] \in Nat
    BY <1>4, Zenon
  <2> HIDE DEF callee, j
  <2>3. imm \in Int /\ p + imm = linked[callee]
    BY <1>2, <2>2
  <2>4. p \in Nat /\ Top.next < p
    BY <1>2, <2>1
  <2> QED
    BY <1>4, <2>3, <2>4, Zenon
<1> HIDE DEF callee, j, p, imm
<1>6. Quiet(object, Starts, k, Top.next, p)
  BY <1>2, Zenon DEF Quiet
<1>7. ComesTo(object, Starts, stack, p, imm)
  BY <1>2, <1>3, <1>4, <1>5, <1>6, Zenon DEF ComesTo
<1>8. LinkRight(object, program, Starts, stack)
  BY <1>4 DEF Linking, LinkRight
<1>9. LinkRight(object, program', Starts, stack') /\ OnlyNext(stack, p, stack')
  BY <1>1, <1>2, <1>4, <1>5, <1>7, <1>8, Patched
<1>10. stack'[1].fun = main
  BY <1>4, <1>9, Zenon DEF OnlyNext
<1> QED
  BY <1>1, <1>2, <1>9, <1>10, StillLinking

\* The call that waited for a callee is pointed at its copy.
LEMMA ReturnStep ==
  ASSUME IInv, Return
  PROVE  IInv'
<1> DEFINE n == Len(stack)
           frames == Front(stack)
           i == stack[n - 1].next
           k == stack[n - 1].fun
           j == i - stack[n - 1].start + 1
           p == i + 1
           imm == Top.start - i - 1
<1>1. /\ n > 1 /\ Pending = {} /\ result = "running"
      /\ program' = FunWithImm(program, p, imm) /\ stack' = MoveTo(frames, p)
      /\ UNCHANGED <<object, functions, todo, main, linked, result>>
  BY DEF Return, Patch, Distance, Advance, FunWithImm, MoveTo
<1>2. stack # <<>>
  BY <1>1
<1>3. /\ Parsed(object) /\ Linking /\ Top = stack[n] /\ n \in DOMAIN stack /\ n \in Nat
      /\ DOMAIN stack = 1 .. n /\ stack[1].fun = main
      /\ DOMAIN Starts \subseteq DOMAIN object.functions
      /\ \A l \in DOMAIN Starts : Starts[l] \in Nat
  BY <1>2, LinkingFacts DEF Linking
<1>4. /\ Copies(object, program.instructions, Starts) /\ Frames(object, Starts, stack)
      /\ Immediates(object, program.instructions, Starts, stack)
      /\ Informed(object, program, Starts)
  BY <1>3 DEF Linking
<1>5. Starts \in [DOMAIN Starts -> Nat]
  BY <1>4 DEF Copies
<1>6. /\ Frames(object, Starts, frames) /\ frames # <<>> /\ Len(frames) = n - 1
      /\ frames[1] = stack[1] /\ frames[n - 1] = stack[n - 1]
      /\ \A l \in DOMAIN Starts : \A m \in DOMAIN Body(object, l) :
           Open(Starts, frames, l, m) <=> l # Top.fun /\ Open(Starts, stack, l, m)
  <2>1. 1 \in 1 .. n - 1 /\ n - 1 \in 1 .. n - 1
    BY <1>1, <1>3
  <2>2. /\ Frames(object, Starts, frames) /\ Shorter(stack, frames)
        /\ \A l \in DOMAIN Starts : \A m \in DOMAIN Body(object, l) :
             Open(Starts, frames, l, m) <=> l # Top.fun /\ Open(Starts, stack, l, m)
    BY <1>1, <1>2, <1>3, <1>4, <1>5, Popped
  <2>3. frames # <<>> /\ Len(frames) = n - 1 /\ frames[1] = stack[1] /\ frames[n - 1] = stack[n - 1]
    BY <2>1, <2>2 DEF Shorter
  <2> QED
    BY <2>2, <2>3, Zenon
<1>7. /\ n - 1 \in DOMAIN stack /\ (n - 1) + 1 = n
  BY <1>1, <1>3
<1>8. /\ k \in DOMAIN Starts /\ stack[n - 1].start = Starts[k] /\ i \in Nat /\ Starts[k] \in Nat
      /\ Top.fun \in DOMAIN Starts /\ Top.start = Starts[Top.fun] /\ Top.start \in Nat
      /\ Top.next \in Nat
      /\ Len(Body(object, Top.fun)) \in Nat
      /\ DOMAIN Body(object, Top.fun) = 1 .. Len(Body(object, Top.fun))
  BY <1>2, <1>3, <1>7, FrameFacts
<1>9. /\ j \in DOMAIN Body(object, k) /\ Body(object, k)[j].op # "other"
      /\ Body(object, k)[j].to = Top.fun
  <2>1. n - 1 \in DOMAIN stack /\ (n - 1) + 1 \in DOMAIN stack
    BY <1>3, <1>7
  <2>2. \A f \in DOMAIN stack : f + 1 \in DOMAIN stack =>
          /\ stack[f].next - stack[f].start + 1 \in DOMAIN Body(object, stack[f].fun)
          /\ Body(object, stack[f].fun)[stack[f].next - stack[f].start + 1].op # "other"
          /\ Body(object, stack[f].fun)[stack[f].next - stack[f].start + 1].to = stack[f + 1].fun
    BY <1>4, Zenon DEF Frames
  <2> QED
    BY <1>3, <1>7, <2>1, <2>2
<1>10. /\ p \in Nat /\ imm \in Int /\ p + imm = Starts[Top.fun] /\ p = Starts[k] + j /\ i < p
  <2>1. p \in Nat /\ i < p
    BY <1>8
  <2>2. imm \in Int /\ p + imm = Top.start
    BY <1>8
  <2>3. j = i - Starts[k] + 1
    BY <1>8
  <2>4. p = Starts[k] + j
    BY <1>8, <2>3
  <2> QED
    BY <1>8, <2>1, <2>2, <2>4, Zenon
<1>11. Reached(main) # {}
  <2>1. Top.fun \in Callees({k})
    BY <1>3, <1>8, <1>9, CalleesOf
  <2> QED
    BY <1>2, <1>8, <2>1, CalleesReached
<1>12. Quiet(object, Starts, k, i, p)
  <2>1. SUFFICES ASSUME NEW m \in DOMAIN Body(object, k), i < Starts[k] + m, Starts[k] + m < p
                 PROVE  FALSE
    BY DEF Quiet
  <2>2. m \in Int
    BY <1>3, <1>8, ParsedCode
  <2> QED
    BY <1>8, <2>1, <2>2
<1>13. Immediates(object, program.instructions, Starts, frames)
  <2>1. SUFFICES ASSUME NEW l \in DOMAIN Starts, NEW m \in DOMAIN Body(object, l)
                 PROVE  LET copy == program.instructions[Starts[l] + m]
                            ins == Body(object, l)[m]
                        IN /\ Open(Starts, frames, l, m) => copy.imm = ins.imm
                           /\ ~Open(Starts, frames, l, m) /\ ins.op # "other" =>
                                /\ ins.to \in DOMAIN Starts
                                /\ Starts[l] + m + copy.imm = Starts[ins.to]
    BY Zenon DEF Immediates
  <2>2. LET copy == program.instructions[Starts[l] + m]
            ins == Body(object, l)[m]
        IN /\ Open(Starts, stack, l, m) => copy.imm = ins.imm
           /\ ~Open(Starts, stack, l, m) /\ ins.op # "other" =>
                /\ ins.to \in DOMAIN Starts
                /\ Starts[l] + m + copy.imm = Starts[ins.to]
    BY <1>4, Zenon DEF Immediates
  <2>3. Open(Starts, stack, l, m) /\ ~Open(Starts, frames, l, m) =>
          Body(object, l)[m].op = "other"
    <3>1. SUFFICES ASSUME Open(Starts, stack, l, m), l = Top.fun
                   PROVE  Body(object, l)[m].op = "other"
      BY <1>6, Zenon
    <3>2. Top.next < Starts[l] + m
      <4>1. Open(Starts, stack, stack[n].fun, m) <=> stack[n].next < Starts[stack[n].fun] + m
        BY <1>2, <1>4, OpenTop
      <4> QED
        BY <1>3, <3>1, <4>1, Zenon
    <3>3. Starts[l] + m - 1 \in Top.next .. Top.start + Len(Body(object, Top.fun)) - 1
      BY <1>8, <3>1, <3>2
    <3>4. (Starts[l] + m - 1) - Top.start + 1 = m
      BY <1>8, <3>1
    <3>5. Starts[l] + m - 1 \notin Pending
      BY <1>1
    <3> QED
      BY <1>2, <3>1, <3>3, <3>4, <3>5, PendingDef
  <2>4. Open(Starts, frames, l, m) => Open(Starts, stack, l, m)
    BY <1>6, Zenon
  <2> QED
    BY <2>2, <2>3, <2>4, Zenon
<1> HIDE DEF n, frames, j, p, imm
<1>14. ComesTo(object, Starts, frames, p, imm)
  <2>1. frames[Len(frames)] = stack[n - 1]
    BY <1>6
  <2> QED
    BY <1>8, <1>9, <1>10, <1>12, <2>1 DEF ComesTo
<1>15. LinkRight(object, program, Starts, frames)
  BY <1>4, <1>6, <1>13 DEF LinkRight
<1>16. LinkRight(object, program', Starts, stack') /\ OnlyNext(frames, p, stack')
  BY <1>1, <1>3, <1>6, <1>10, <1>14, <1>15, Patched
<1>17. stack'[1].fun = main
  BY <1>3, <1>6, <1>16, Zenon DEF OnlyNext
<1> QED
  BY <1>1, <1>2, <1>11, <1>16, <1>17, StillLinking

\* The last frame comes next to the call at index i, which is one of function l.
ComesToCall(o, at, frames, i, l) ==
  LET top == frames[Len(frames)]
      j == i - top.start + 1
  IN /\ j \in DOMAIN Body(o, top.fun) /\ i + 1 = at[top.fun] + j /\ top.next <= i
     /\ Quiet(o, at, top.fun, top.next, i + 1)
     /\ Body(o, top.fun)[j].op # "other" /\ Body(o, top.fun)[j].to = l

\* The first frame is of the same function.
SameFirst(frames, frames2) == frames2[1].fun = frames[1].fun

\* A function that the program has not had is appended to it, and a frame starts at it.
LEMMA Appended ==
  ASSUME NEW o, Parsed(o), NEW fun, NEW at, NEW frames, LinkRight(o, fun, at, frames),
         frames # <<>>, NEW i \in Nat, NEW l \in DOMAIN o.functions, l \notin DOMAIN at,
         ComesToCall(o, at, frames, i, l),
         (fun.func_info = <<>>) <=> (o.functions[l].func_info = <<>>),
         NEW end, end = Len(fun.instructions), NEW at2, at2 = StartsWith(at, l, end),
         NEW fun2, fun2 = Extended(o, fun, l, end),
         NEW frames2, frames2 = Enter(MoveTo(frames, i), l, end)
  PROVE  LinkRight(o, fun2, at2, frames2) /\ SameFirst(frames, frames2)
<1> DEFINE top == frames[Len(frames)]
           k == top.fun
           j == i - top.start + 1
           code == fun.instructions
           frames1 == MoveTo(frames, i)
<1>1. /\ Copies(o, code, at) /\ Frames(o, at, frames) /\ Immediates(o, code, at, frames)
      /\ Informed(o, fun, at)
  BY DEF LinkRight
<1>2. DOMAIN at \subseteq DOMAIN o.functions /\ at \in [DOMAIN at -> Nat]
  BY <1>1, Zenon DEF Copies
<1>3. /\ Len(frames) \in DOMAIN frames /\ k \in DOMAIN at /\ top.start = at[k]
      /\ at[k] \in Nat /\ top.next \in Nat /\ top.start <= top.next
  BY <1>1, <1>2, FrameNumbers
<1>4. Len(Body(o, k)) \in Nat /\ DOMAIN Body(o, k) = 1 .. Len(Body(o, k))
  BY <1>2, <1>3, ParsedCode
<1>5. /\ j \in DOMAIN Body(o, k) /\ i + 1 = at[k] + j /\ top.next <= i
      /\ Quiet(o, at, k, top.next, i + 1)
      /\ Body(o, k)[j].op # "other" /\ Body(o, k)[j].to = l
  BY Zenon DEF ComesToCall
<1>6. top.start <= i /\ i <= top.start + Len(Body(o, k))
  BY <1>3, <1>4, <1>5
<1>7. end \in Nat
  BY <1>1, LenProperties DEF Copies
<1>8. /\ Frames(o, at, frames1) /\ OnlyNext(frames, i, frames1)
      /\ \A m \in DOMAIN Body(o, k) : Open(at, frames1, k, m) <=> i < at[k] + m
      /\ \A q \in DOMAIN at : q # k => \A m \in DOMAIN Body(o, q) :
           Open(at, frames1, q, m) <=> Open(at, frames, q, m)
  <2>1. /\ Frames(o, at, frames1) /\ OnlyNext(frames, i, frames1)
        /\ OpenAfter(o, at, frames, i, frames1)
    BY <1>1, <1>2, <1>6, Moved
  <2> QED
    BY <2>1, Zenon DEF OpenAfter
<1>9. \A m : Open(at, frames, k, m) <=> top.next < at[k] + m
  BY <1>1, OpenTop
<1> HIDE DEF frames1
<1>10. /\ frames1 # <<>> /\ frames1[1].fun = frames[1].fun
       /\ LET t == frames1[Len(frames1)]
              m == t.next - t.start + 1
          IN /\ m \in DOMAIN Body(o, t.fun) /\ Body(o, t.fun)[m].op # "other"
             /\ Body(o, t.fun)[m].to = l
  <2>1. /\ frames1 # <<>> /\ Len(frames1) = Len(frames) /\ frames1[1].fun = frames[1].fun
        /\ frames1[Len(frames)].fun = k /\ frames1[Len(frames)].start = top.start
        /\ frames1[Len(frames)].next = i
    BY <1>8, Zenon DEF OnlyNext
  <2> QED
    BY <1>5, <2>1, Zenon
<1>11. frames2 = Enter(frames1, l, end)
  BY DEF frames1
<1>12. /\ Frames(o, at2, frames2) /\ frames2[1] = frames1[1]
       /\ \A q \in DOMAIN at2 : \A m \in DOMAIN Body(o, q) :
            Open(at2, frames2, q, m) <=> (q = l \/ (q \in DOMAIN at /\ Open(at, frames1, q, m)))
  BY <1>2, <1>7, <1>8, <1>10, <1>11, Pushed
<1>13. /\ DOMAIN at2 = DOMAIN at \union {l} /\ at2[l] = end
       /\ \A q \in DOMAIN at : at2[q] = at[q]
  BY DEF StartsWith
<1> HIDE DEF top, k, j
<1>14. \A m \in DOMAIN Body(o, l) : Open(at2, frames2, l, m)
  BY <1>12, <1>13
<1>15. ASSUME NEW q \in DOMAIN at, NEW m \in DOMAIN Body(o, q)
       PROVE  /\ Open(at2, frames2, q, m) => Open(at, frames, q, m)
              /\ Open(at, frames, q, m) /\ ~Open(at2, frames2, q, m) => Body(o, q)[m].op = "other"
  <2>1. Open(at2, frames2, q, m) <=> Open(at, frames1, q, m)
    BY <1>12, <1>13
  <2>2. CASE q # k
    BY <1>8, <2>1, <2>2, Zenon
  <2>3. CASE q = k
    <3>1. /\ Open(at, frames1, q, m) <=> i < at[k] + m
          /\ Open(at, frames, q, m) <=> top.next < at[k] + m
      BY <1>8, <1>9, <2>3, Zenon
    <3>2. at[k] + m \in Int
      BY <1>3, <1>4, <2>3
    <3>3. /\ i < at[k] + m => top.next < at[k] + m
          /\ ~(i < at[k] + m) => at[k] + m < i + 1
      BY <1>3, <1>5, <3>2
    <3>4. ~(i < at[k] + m) /\ top.next < at[k] + m => Body(o, q)[m].op = "other"
      BY <1>5, <2>3, <3>3, Zenon DEF Quiet
    <3> QED
      BY <2>1, <3>1, <3>3, <3>4, Zenon
  <2> QED
    BY <2>2, <2>3, Zenon
<1>16. /\ \A q \in DOMAIN at : \A m \in DOMAIN Body(o, q) :
            Open(at2, frames2, q, m) => Open(at, frames, q, m)
       /\ \A q \in DOMAIN at : \A m \in DOMAIN Body(o, q) :
            Open(at, frames, q, m) /\ ~Open(at2, frames2, q, m) => Body(o, q)[m].op = "other"
  BY <1>15, Zenon
<1>17. Copies(o, code \o Body(o, l), at2)
  BY <1>1, AppendedCode
<1>18. Immediates(o, code \o Body(o, l), at2, frames2)
  BY <1>1, <1>14, <1>16, AppendedImmediates
<1>19. Informed(o, fun2, at2) /\ fun2.instructions = code \o Body(o, l)
  BY <1>1, AppendedInfo
<1> QED
  BY <1>10, <1>12, <1>17, <1>18, <1>19 DEF LinkRight, SameFirst

\* A function that the program does not have is appended to it.
LEMMA LinkFunctionStep ==
  ASSUME IInv, NEW i, LinkFunction(i)
  PROVE  IInv'
<1> DEFINE l == Callee(i)
           k == Top.fun
           j == i - Top.start + 1
           end == Len(program.instructions)
<1>1. /\ Relocates(i) /\ l \in DOMAIN functions /\ ~Mismatch(i) /\ l \notin DOMAIN linked
      /\ program' = LinkInfo(functions[l], end)
      /\ linked' = [q \in DOMAIN linked \union {l} |-> IF q = l THEN end ELSE linked[q]]
      /\ stack' = Append(MoveTo(stack, i), Frame(l, program'.instructions))
      /\ UNCHANGED <<object, functions, todo, main, result>> /\ result = "running"
  BY DEF LinkFunction, Links, IsLinked, Relocates, CopyStart, MoveTo
<1>2. /\ stack # <<>> /\ i \in Nat /\ Top.next <= i /\ j \in DOMAIN Body(object, k)
      /\ i + 1 = Starts[k] + j /\ Body(object, k)[j].op # "other"
      /\ \A m \in DOMAIN Body(object, k) :
           Top.next < Starts[k] + m /\ Starts[k] + m < i + 1 => Body(object, k)[m].op = "other"
  BY <1>1, RelocatesFacts
<1>3. /\ l = Body(object, k)[j].to /\ l \in DOMAIN object.functions
      /\ l \in Reached(main) \ {Nowhere} /\ functions[l] = object.functions[l] /\ l # main
      /\ (program.func_info = <<>>) <=> (object.functions[main].func_info = <<>>)
  BY <1>1, CalleeFacts
<1>4. /\ Parsed(object) /\ Linking /\ Top = stack[Len(stack)] /\ main \in Programs
      /\ main \notin DOMAIN linked /\ DOMAIN Starts = DOMAIN linked \union {main}
      /\ \A q \in DOMAIN linked : Starts[q] = linked[q]
      /\ Starts[main] = 0 /\ end \in Nat /\ stack[1].fun = main /\ main \in todo
  BY <1>2, LinkingFacts DEF Linking
<1>5. /\ object' = object /\ functions' = functions /\ todo' = todo /\ main' = main
      /\ result' = "running"
  BY <1>1
<1>6. program' = Extended(object, program, l, end)
  BY <1>1, <1>3 DEF LinkInfo, Extended, MovedFuncs, MovedLines, Body
<1>7. stack' = Enter(MoveTo(stack, i), l, end)
  <2>1. Frame(l, program'.instructions) = [fun |-> l, start |-> end, next |-> end]
    <3>1. program'.instructions = program.instructions \o Body(object, l)
      <4>1. program \in Function
        BY <1>4 DEF Linking, Informed
      <4> QED
        BY <1>6, <4>1 DEF Extended, Function
    <3>2. /\ Body(object, l) \in Seq(Instruction) /\ program.instructions \in Seq(Instruction)
      BY <1>2, <1>3, <1>4, ParsedCode, LinkingFacts
    <3>3. Len(program'.instructions) = end + Len(Body(object, l)) /\ Len(Body(object, l)) \in Nat
      BY <3>1, <3>2, AppendedSeq, LenProperties
    <3>4. Len(program'.instructions) - Len(functions[l].instructions) = end
      <4>1. functions[l].instructions = Body(object, l)
        BY <1>3 DEF Body
      <4> HIDE DEF l, end
      <4> QED
        BY <1>4, <3>3, <4>1
    <3> QED
      BY <3>4, Zenon DEF Frame
  <2> QED
    BY <1>1, <2>1 DEF Enter
<1> HIDE DEF l, end
<1>8. Starts' = StartsWith(Starts, l, end)
  <2>1. Starts' = [q \in DOMAIN linked' \union {main} |-> IF q = main THEN 0 ELSE linked'[q]]
    BY <1>5 DEF Starts
  <2>2. DOMAIN linked' \union {main} = DOMAIN Starts \union {l}
    BY <1>1, <1>4
  <2>3. \A q \in DOMAIN Starts \union {l} :
          (IF q = main THEN 0 ELSE linked'[q]) = IF q = l THEN end ELSE Starts[q]
    BY <1>1, <1>3, <1>4
  <2> QED
    BY <2>1, <2>2, <2>3, Zenon DEF StartsWith
<1>9. ComesToCall(object, Starts, stack, i, l)
  <2>1. Quiet(object, Starts, k, Top.next, i + 1)
    BY <1>2, Zenon DEF Quiet
  <2> QED
    BY <1>2, <1>3, <1>4, <2>1, Zenon DEF ComesToCall
<1>10. (program.func_info = <<>>) <=> (object.functions[l].func_info = <<>>)
  <2>1. (functions[l].func_info = <<>>) <=> (program.func_info = <<>>)
    BY <1>1 DEF Mismatch, l
  <2> QED
    BY <1>3, <2>1
<1>11. LinkRight(object, program, Starts, stack)
  BY <1>4 DEF Linking, LinkRight
<1>12. l \notin DOMAIN Starts
  BY <1>1, <1>3, <1>4
<1>13. LinkRight(object, program', Starts', stack') /\ stack'[1].fun = main
  <2>1. end = Len(program.instructions)
    BY DEF end
  <2>2. LinkRight(object, program', Starts', stack') /\ SameFirst(stack, stack')
    <3>1. Parsed(object) /\ stack # <<>> /\ i \in Nat /\ l \in DOMAIN object.functions
      BY <1>2, <1>3, <1>4
    <3> QED
      BY <1>6, <1>7, <1>8, <1>9, <1>10, <1>11, <1>12, <2>1, <3>1, Appended
  <2> QED
    BY <1>4, <2>2 DEF SameFirst
<1>14. /\ Reached(main)' = Reached(main) /\ Callees({main})' = Callees({main})
  BY <1>5 DEF Reached, Callees
<1>15. Callees({main}) # {}
  BY <1>3, NoCallees
<1>16. DOMAIN linked' = DOMAIN linked \union {l}
  BY <1>1
<1>17. DOMAIN linked' \subseteq Reached(main) \ {Nowhere} /\ main \notin DOMAIN linked'
  BY <1>3, <1>4, <1>16 DEF Linking
<1>18. \A q \in DOMAIN Starts' : functions[q] = object.functions[q]
  <2>1. DOMAIN Starts' = DOMAIN Starts \union {l}
    BY <1>8 DEF StartsWith
  <2> QED
    BY <1>3, <1>4, <2>1 DEF Linking
<1>19. Linking'
  BY <1>4, <1>5, <1>13, <1>14, <1>15, <1>17, <1>18 DEF Linking, LinkRight
<1> QED
  BY <1>4, <1>5, <1>19, WithinLink

-----------------------------------------------------------------------------
(* A linked program *)

\* Every call reaches the start of its callee.
Closed(o, code, at) ==
  \A k \in DOMAIN at : \A j \in DOMAIN Body(o, k) : Body(o, k)[j].op # "other" =>
    /\ Body(o, k)[j].to \in DOMAIN at
    /\ at[k] + j + code[at[k] + j].imm = at[Body(o, k)[j].to]

\* What CallsLand says of code.
Lands(code) ==
  \A i \in DOMAIN code : code[i].op # "other" =>
    /\ i + 1 + code[i].imm \in DOMAIN code
    /\ code[i + 1 + code[i].imm].from = code[i].to

\* What InfoMatches says of a function.
InfoRight(fun, keys) ==
  fun.func_info # <<>> =>
    LET code == fun.instructions IN
    /\ Said(fun.func_info) =
         {<<i - 1, code[i].from>> : i \in {j \in DOMAIN code : code[j].from \in keys}}
    /\ Said(fun.line_info) = {<<i - 1, code[i].from>> : i \in DOMAIN code}

\* Where a function starts, its first instruction is.
LEMMA Firsts ==
  ASSUME NEW o, Parsed(o), NEW code, NEW at, Copies(o, code, at), NEW k \in DOMAIN at
  PROVE  /\ at[k] + 1 \in DOMAIN code /\ code[at[k] + 1].from = k
         /\ \A j \in DOMAIN Body(o, k) :
              code[at[k] + j].from \in DOMAIN o.functions => j = 1
<1>1. /\ k \in DOMAIN o.functions
      /\ \A j \in DOMAIN Body(o, k) :
           at[k] + j \in DOMAIN code /\ Same(code[at[k] + j], Body(o, k)[j])
  BY Zenon DEF Copies
<1>2. 1 \in DOMAIN Body(o, k)
  BY <1>1, ParsedCode
<1>3. Body(o, k)[1].from = k
  BY <1>1, <1>2, OnlyFirst
<1>4. at[k] + 1 \in DOMAIN code /\ code[at[k] + 1].from = k
  BY <1>1, <1>2, <1>3 DEF Same
<1>5. ASSUME NEW j \in DOMAIN Body(o, k), code[at[k] + j].from \in DOMAIN o.functions
      PROVE  j = 1
  <2>1. Body(o, k)[j].from \in DOMAIN o.functions
    BY <1>1, <1>5 DEF Same
  <2> QED
    BY <1>1, <2>1, OnlyFirst
<1> QED
  BY <1>4, <1>5

\* If every call reaches the start of its callee, it lands on its first instruction.
LEMMA ClosedLands ==
  ASSUME NEW o, Parsed(o), NEW code, NEW at, Copies(o, code, at), Closed(o, code, at)
  PROVE  Lands(code)
<1>1. SUFFICES ASSUME NEW i \in DOMAIN code, code[i].op # "other"
               PROVE  /\ i + 1 + code[i].imm \in DOMAIN code
                      /\ code[i + 1 + code[i].imm].from = code[i].to
  BY DEF Lands
<1>2. PICK k \in DOMAIN at : \E j \in DOMAIN Body(o, k) : i = at[k] + j
  BY Zenon DEF Copies
<1>3. PICK j \in DOMAIN Body(o, k) : i = at[k] + j
  BY <1>2
<1>4. Same(code[i], Body(o, k)[j]) /\ code \in Seq(Instruction) /\ at \in [DOMAIN at -> Nat]
  BY <1>3, Zenon DEF Copies
<1> DEFINE to == Body(o, k)[j].to
<1>5. to \in DOMAIN at /\ code[i].to = to /\ i + code[i].imm = at[to]
  BY <1>1, <1>3, <1>4, Zenon DEF Closed, Same
<1>6. code[i].imm \in Int /\ i \in Int /\ at[to] \in Nat
  <2>1. code[i] \in Instruction /\ i \in Int
    BY <1>4, ElementOfSeq, LenProperties
  <2> QED
    BY <1>4, <1>5, <2>1 DEF Instruction
<1> HIDE DEF to
<1>7. i + 1 + code[i].imm = at[to] + 1
  BY <1>5, <1>6
<1>8. at[to] + 1 \in DOMAIN code /\ code[at[to] + 1].from = to
  BY <1>5, Firsts
<1> QED
  BY <1>5, <1>7, <1>8

\* The infos of such a program are right.
LEMMA InformedRight ==
  ASSUME NEW o, Parsed(o), NEW fun, NEW at, Copies(o, fun.instructions, at), Informed(o, fun, at)
  PROVE  InfoRight(fun, DOMAIN o.functions)
<1> DEFINE code == fun.instructions
           firsts == {j \in DOMAIN code : code[j].from \in DOMAIN o.functions}
<1>1. /\ DOMAIN at \subseteq DOMAIN o.functions /\ at \in [DOMAIN at -> Nat]
      /\ \A i \in DOMAIN code : \E k \in DOMAIN at : \E j \in DOMAIN Body(o, k) : i = at[k] + j
  BY Zenon DEF Copies
<1>2. \A k \in DOMAIN at : /\ at[k] + 1 \in DOMAIN code /\ code[at[k] + 1].from = k
                           /\ (at[k] + 1) - 1 = at[k]
  BY <1>1, Firsts
<1>3. \A i \in firsts : \E k \in DOMAIN at : i = at[k] + 1
  <2>1. SUFFICES ASSUME NEW i \in firsts PROVE \E k \in DOMAIN at : i = at[k] + 1
    OBVIOUS
  <2>2. PICK k \in DOMAIN at : \E j \in DOMAIN Body(o, k) : i = at[k] + j
    BY <1>1
  <2>3. PICK j \in DOMAIN Body(o, k) : i = at[k] + j
    BY <2>2
  <2>4. j = 1
    BY <2>1, <2>3, Firsts
  <2> QED
    BY <2>3, <2>4
<1> HIDE DEF code
<1>4. firsts = {j \in DOMAIN code : code[j].from \in DOMAIN o.functions}
  OBVIOUS
<1> HIDE DEF firsts
<1>5. {<<i - 1, code[i].from>> : i \in firsts} = {<<at[k], k>> : k \in DOMAIN at}
  <2>1. ASSUME NEW i \in firsts
        PROVE  \E k \in DOMAIN at : <<i - 1, code[i].from>> = <<at[k], k>>
    <3>1. PICK k \in DOMAIN at : i = at[k] + 1
      BY <1>3
    <3>2. at[k] \in Nat
      BY <1>1
    <3>3. i - 1 = at[k]
      BY <3>1, <3>2
    <3>4. code[i].from = k
      BY <1>2, <3>1
    <3> QED
      BY <3>3, <3>4
  <2>2. ASSUME NEW k \in DOMAIN at
        PROVE  \E i \in firsts : <<i - 1, code[i].from>> = <<at[k], k>>
    <3>1. at[k] + 1 \in firsts
      BY <1>1, <1>2, <1>4
    <3>2. (at[k] + 1) - 1 = at[k] /\ code[at[k] + 1].from = k
      BY <1>2, Zenon
    <3>3. \E i \in firsts : i - 1 = at[k] /\ code[i].from = k
      BY <3>1, <3>2, Zenon
    <3> QED
      BY <3>3
  <2> QED
    BY <2>1, <2>2
<1>6. fun.func_info # <<>> =>
        /\ Said(fun.func_info) = {<<at[k], k>> : k \in DOMAIN at}
        /\ Said(fun.line_info) = {<<i - 1, code[i].from>> : i \in DOMAIN code}
  BY DEF Informed, code
<1> QED
  BY <1>4, <1>5, <1>6, Zenon DEF InfoRight, code

\* Nothing in the program calls the program itself.
LEMMA MainNotCalled ==
  ASSUME IInv, stack # <<>>, NEW k \in DOMAIN Starts
  PROVE  main \notin Callees({k})
<1>1. /\ Regular /\ Linking /\ main \in Programs /\ k \in DOMAIN object.functions
      /\ DOMAIN Starts = DOMAIN linked \union {main}
  BY LinkingFacts
<1>2. SUFFICES ASSUME main \in Callees({k}) PROVE FALSE
  OBVIOUS
<1>3. Callees({main}) = {}
  BY <1>1, <1>2, Zenon DEF Regular, Exposed
<1>4. Reached(main) = {}
  BY <1>3, NoCallees
<1>5. DOMAIN linked = {}
  BY <1>1, <1>4, Zenon DEF Linking
<1>6. k = main
  BY <1>1, <1>5
<1> QED
  BY <1>2, <1>3, <1>6

\* When nothing is pending, every call of the program reaches its callee.
LEMMA AllClosed ==
  ASSUME IInv, Len(stack) = 1, Pending = {}
  PROVE  Closed(object, program.instructions, Starts)
<1>1. stack # <<>>
  BY EmptySeq
<1>2. /\ Linking /\ DOMAIN stack = {1} /\ Top = stack[1] /\ Parsed(object)
      /\ DOMAIN Starts \subseteq DOMAIN object.functions
  BY <1>1, LinkingFacts
<1>3. /\ stack[1].fun \in DOMAIN Starts /\ stack[1].start = Starts[stack[1].fun]
      /\ stack[1].start \in Nat /\ stack[1].next \in Nat
      /\ Len(Body(object, stack[1].fun)) \in Nat
      /\ DOMAIN Body(object, stack[1].fun) = 1 .. Len(Body(object, stack[1].fun))
  <2>1. 1 \in DOMAIN stack
    BY <1>2
  <2> QED
    BY <1>1, <2>1, FrameFacts
<1>4. ASSUME NEW k \in DOMAIN Starts, NEW j \in DOMAIN Body(object, k),
             Open(Starts, stack, k, j)
      PROVE  Body(object, k)[j].op = "other"
  <2>1. k = stack[1].fun /\ stack[1].next < Starts[k] + j
    BY <1>2, <1>4 DEF Open
  <2> DEFINE i == Starts[k] + j - 1
  <2>2. /\ i \in stack[1].next .. stack[1].start + Len(Body(object, stack[1].fun)) - 1
        /\ i - stack[1].start + 1 = j
    BY <1>3, <2>1
  <2> HIDE DEF i
  <2>3. i \notin Pending
    OBVIOUS
  <2> QED
    BY <1>1, <1>2, <2>1, <2>2, <2>3, PendingDef
<1>5. Immediates(object, program.instructions, Starts, stack)
  BY <1>2 DEF Linking
<1> QED
  BY <1>4, <1>5, Zenon DEF Immediates, Closed

\* Then the program has what it reaches.
LEMMA HasReached ==
  ASSUME IInv, stack # <<>>, Closed(object, program.instructions, Starts)
  PROVE  Reached(main) = DOMAIN linked
<1>1. /\ Parsed(object) /\ Linking /\ DOMAIN Starts = DOMAIN linked \union {main}
      /\ DOMAIN Starts \subseteq DOMAIN object.functions /\ main \in DOMAIN object.functions
  BY LinkingFacts
<1>2. ASSUME NEW k \in DOMAIN Starts
      PROVE  Callees({k}) \subseteq DOMAIN linked
  <2>1. SUFFICES ASSUME NEW x \in Callees({k}) PROVE x \in DOMAIN linked
    OBVIOUS
  <2>2. PICK i \in DOMAIN Body(object, k) :
               Body(object, k)[i].op # "other" /\ Body(object, k)[i].to = x
    BY <1>1, CalleesOf
  <2>3. x \in DOMAIN Starts
    BY <2>2 DEF Closed
  <2>4. x # main
    BY MainNotCalled
  <2> QED
    BY <1>1, <2>3, <2>4
<1>3. Callees(DOMAIN linked) \subseteq DOMAIN linked
  <2>1. SUFFICES ASSUME NEW x \in Callees(DOMAIN linked) PROVE x \in DOMAIN linked
    OBVIOUS
  <2>2. DOMAIN linked \subseteq DOMAIN object.functions \union {Nowhere}
    BY <1>1
  <2>3. PICK k \in DOMAIN linked \ {Nowhere} : \E i \in DOMAIN Body(object, k) :
               Body(object, k)[i].op # "other" /\ Body(object, k)[i].to = x
    BY <1>1, <2>2, CalleesDef
  <2>4. k \in DOMAIN object.functions /\ k \in DOMAIN Starts
    BY <1>1
  <2>5. x \in Callees({k})
    BY <1>1, <2>3, <2>4, CalleesOf
  <2> QED
    BY <1>2, <2>4, <2>5
<1>4. Callees({main}) \subseteq DOMAIN linked
  BY <1>1, <1>2
<1>5. DOMAIN linked \in SUBSET (DOMAIN object.functions \union {Nowhere})
  BY <1>1
<1>6. Reached(main) \subseteq DOMAIN linked
  BY <1>3, <1>4, <1>5, ReachedLeast
<1>7. DOMAIN linked \subseteq Reached(main)
  BY <1>1 DEF Linking
<1> QED
  BY <1>6, <1>7

\* No two of its instructions are copies of the same one.
LEMMA FromInjective ==
  ASSUME NEW o, Parsed(o), NEW code, NEW at, Copies(o, code, at),
         NEW i \in DOMAIN code, NEW j \in DOMAIN code, code[i].from = code[j].from
  PROVE  i = j
<1>1. /\ DOMAIN at \subseteq DOMAIN o.functions
      /\ \A k \in DOMAIN at : \A m \in DOMAIN Body(o, k) : Same(code[at[k] + m], Body(o, k)[m])
      /\ \A n \in DOMAIN code :
           \E k \in DOMAIN at : \E m \in DOMAIN Body(o, k) : n = at[k] + m
  BY Zenon DEF Copies
<1>2. PICK k \in DOMAIN at : \E m \in DOMAIN Body(o, k) : i = at[k] + m
  BY <1>1
<1>3. PICK m \in DOMAIN Body(o, k) : i = at[k] + m
  BY <1>2
<1>4. PICK l \in DOMAIN at : \E n \in DOMAIN Body(o, l) : j = at[l] + n
  BY <1>1
<1>5. PICK n \in DOMAIN Body(o, l) : j = at[l] + n
  BY <1>4
<1>6. code[i].from = Body(o, k)[m].from /\ code[j].from = Body(o, l)[n].from
  BY <1>1, <1>3, <1>5, Zenon DEF Same
<1>7. k = l /\ m = n
  <2>1. k \in DOMAIN o.functions /\ l \in DOMAIN o.functions
    BY <1>1
  <2>2. Body(o, k)[m].from = Body(o, l)[n].from
    BY <1>6
  <2> QED
    BY <2>1, <2>2, FromUnique
<1> QED
  BY <1>3, <1>5, <1>7

\* So they are as many as their places.
LEMMA CopiedMany ==
  ASSUME NEW o, Parsed(o), NEW code, NEW at, Copies(o, code, at),
         NEW own \in Nat, own <= Len(code)
  PROVE  Len(code) = own + Cardinality({code[i].from : i \in own + 1 .. Len(code)})
<1> DEFINE I == own + 1 .. Len(code)
           copied == {code[i].from : i \in I}
           f == [i \in I |-> code[i].from]
<1>1. Len(code) \in Nat /\ DOMAIN code = 1 .. Len(code)
  BY LenProperties DEF Copies
<1>2. I \subseteq DOMAIN code
  BY <1>1
<1>3. IsFiniteSet(I) /\ Cardinality(I) = Len(code) - own
  <2>1. own + 1 \in Int /\ Len(code) \in Int
    BY <1>1
  <2>2. /\ IsFiniteSet(I)
        /\ Cardinality(I) = IF own + 1 > Len(code) THEN 0 ELSE Len(code) - (own + 1) + 1
    BY <2>1, FS_Interval
  <2> QED
    BY <1>1, <2>2
<1> HIDE DEF I
<1>4. \A i, j \in I : code[i].from = code[j].from => i = j
  <2>1. SUFFICES ASSUME NEW i \in I, NEW j \in I, code[i].from = code[j].from PROVE i = j
    OBVIOUS
  <2> QED
    BY <1>2, <2>1, FromInjective
<1>5. f \in Bijection(I, copied)
  BY <1>4 DEF Bijection, Injection, Surjection, IsInjective
<1>6. Cardinality(copied) = Cardinality(I)
  BY <1>3, <1>5, FS_Bijection DEF ExistsBijection
<1> HIDE DEF copied
<1>7. Len(code) = own + Cardinality(copied)
  BY <1>1, <1>3, <1>6
<1> QED
  BY <1>7 DEF copied, I

\* What the program has, besides its own code, is the code of the functions it reaches.
LEMMA LinkedRight ==
  ASSUME IInv, stack # <<>>, Reached(main) = DOMAIN linked
  PROVE  LinkedAs(object, program.instructions, main, Reached(main))
<1> DEFINE code == program.instructions
           own == Len(Body(object, main))
           I == own + 1 .. Len(code)
           copied == {code[i].from : i \in I}
           meant == UNION {{ins.from : ins \in Range(Body(object, k))} : k \in DOMAIN linked}
<1>1. /\ Parsed(object) /\ Linking /\ main \in DOMAIN Starts /\ Starts[main] = 0
      /\ main \in DOMAIN object.functions /\ main \notin DOMAIN linked
      /\ DOMAIN Starts = DOMAIN linked \union {main}
      /\ \A k \in DOMAIN Starts : Starts[k] \in Nat
      /\ Len(code) \in Nat /\ DOMAIN code = 1 .. Len(code)
  BY LinkingFacts
<1>2. Copies(object, code, Starts)
  BY <1>1 DEF Linking
<1>3. own \in Nat \ {0} /\ DOMAIN Body(object, main) = 1 .. own /\ own <= Len(code)
  <2>1. Starts[main] + own <= Len(code)
    BY <1>1, <1>2, StartRange
  <2>2. own \in Nat \ {0} /\ DOMAIN Body(object, main) = 1 .. own
    BY <1>1, ParsedCode
  <2> QED
    BY <1>1, <2>1, <2>2
<1> HIDE DEF code, own
<1>4. SubSeq(code, 1, own) # <<>> /\ code[1].from = main
  <2>1. 1 \in DOMAIN SubSeq(code, 1, own)
    BY <1>3
  <2>2. code[Starts[main] + 1].from = main
    BY <1>1, <1>2, Firsts
  <2>3. Starts[main] + 1 = 1
    BY <1>1
  <2>4. \A s : 1 \in DOMAIN s => s # <<>>
    OBVIOUS
  <2> QED
    BY <2>1, <2>2, <2>3, <2>4, Zenon
<1>5. ASSUME NEW i \in I
      PROVE  code[i].from \in meant
  <2>1. i \in DOMAIN code /\ i \in Nat /\ ~(i <= own)
    BY <1>1, <1>3
  <2>2. PICK k \in DOMAIN Starts : \E j \in DOMAIN Body(object, k) : i = Starts[k] + j
    BY <1>2, <2>1, Zenon DEF Copies
  <2>3. PICK j \in DOMAIN Body(object, k) : i = Starts[k] + j
    BY <2>2
  <2>4. k # main
    BY <1>1, <1>3, <2>1, <2>3
  <2>5. code[i].from = Body(object, k)[j].from
    BY <1>2, <2>3, Zenon DEF Copies, Same
  <2>6. Body(object, k)[j] \in Range(Body(object, k)) /\ k \in DOMAIN linked
    BY <1>1, <2>4 DEF Range
  <2> QED
    BY <2>5, <2>6
<1>6. ASSUME NEW k \in DOMAIN linked, NEW j \in DOMAIN Body(object, k)
      PROVE  Body(object, k)[j].from \in copied
  <2>1. k \in DOMAIN Starts /\ k # main
    BY <1>1
  <2>2. Starts[k] + j \in DOMAIN code /\ code[Starts[k] + j].from = Body(object, k)[j].from
    BY <1>2, <2>1, Zenon DEF Copies, Same
  <2>3. Starts[k] + j \notin 1 .. own
    <3>1. SUFFICES ASSUME NEW i \in 1 .. own, Starts[k] + j = i PROVE FALSE
      OBVIOUS
    <3>2. i \in DOMAIN Body(object, main) /\ Starts[k] + j = Starts[main] + i
      BY <1>1, <1>3, <3>1
    <3> QED
      BY <1>1, <2>1, <3>2, Disjoint
  <2>4. Starts[k] + j \in I
    BY <1>1, <1>3, <2>2, <2>3
  <2> QED
    BY <2>2, <2>4
<1>7. copied = meant
  <2>1. copied \subseteq meant
    BY <1>5
  <2>2. ASSUME NEW x \in meant PROVE x \in copied
    <3>1. PICK k \in DOMAIN linked : x \in {ins.from : ins \in Range(Body(object, k))}
      BY <2>2
    <3>2. PICK j \in DOMAIN Body(object, k) : x = Body(object, k)[j].from
      BY <3>1 DEF Range
    <3> QED
      BY <1>6, <3>2
  <2> QED
    BY <2>1, <2>2
<1>8. Len(code) = own + Cardinality(copied)
  BY <1>1, <1>2, <1>3, CopiedMany
<1>9. DOMAIN linked \ {Nowhere} = DOMAIN linked
  BY <1>1 DEF Linking
<1>10. LinkedAs(object, code, main, DOMAIN linked)
  BY <1>4, <1>7, <1>8, <1>9, Zenon DEF LinkedAs, own
<1> QED
  BY <1>10 DEF code

\* The linked program takes the place of the function.
LEMMA FinishStep ==
  ASSUME IInv, Finish
  PROVE  IInv'
<1>1. /\ Len(stack) = 1 /\ Pending = {} /\ result = "running"
      /\ functions' = [functions EXCEPT ![main] = program] /\ todo' = todo \ {main}
      /\ stack' = <<>> /\ result' \in {"running", "done"}
      /\ object' = object /\ main' = main /\ program' = program /\ linked' = linked
  BY DEF Finish
<1>2. stack # <<>>
  BY <1>1, EmptySeq
<1>3. /\ Parsed(object) /\ Regular /\ Linking /\ TypeOK /\ FunctionsKept
      /\ CallsLand /\ LinkedExactly /\ InfoMatches
      /\ DOMAIN functions = DOMAIN object.functions /\ main \in DOMAIN object.functions
      /\ main \in Programs /\ main \in todo /\ main \in DOMAIN Starts
  BY <1>2, LinkingFacts DEF IInv
<1>4. /\ DOMAIN functions' = DOMAIN functions /\ functions'[main] = program
      /\ \A k \in DOMAIN functions \ {main} : functions'[k] = functions[k]
  BY <1>1, <1>3
<1>5. /\ Programs' = Programs /\ Regular' /\ Parsed(object)'
      /\ \A keys : Callees(keys)' = Callees(keys)
      /\ \A p : Reached(p)' = Reached(p)
  BY <1>1, <1>3, SameObject
<1>6. Programs' \ todo' = (Programs \ todo) \union {main}
  BY <1>1, <1>3, <1>5
<1>7. Closed(object, program.instructions, Starts)
  BY <1>1, AllClosed
<1>8. /\ Copies(object, program.instructions, Starts) /\ Informed(object, program, Starts)
      /\ program \in Function
  BY <1>3 DEF Linking, Informed
<1>9. Reached(main) = DOMAIN linked
  BY <1>2, <1>7, HasReached
<1>10. \A p \in Programs \ todo : p # main /\ p \in DOMAIN functions /\ functions'[p] = functions[p]
  BY <1>3, <1>4 DEF Programs
<1>11. CallsLand'
  <2>1. Lands(program.instructions)
    BY <1>3, <1>7, <1>8, ClosedLands
  <2>2. \A p \in Programs \ todo : Lands(functions[p].instructions)
    BY <1>3, Zenon DEF CallsLand, Lands
  <2>3. \A p \in Programs' \ todo' : Lands(functions'[p].instructions)
    BY <1>4, <1>6, <1>10, <2>1, <2>2
  <2> QED
    BY <2>3, Zenon DEF CallsLand, Lands
<1>12. LinkedExactly'
  <2>1. LinkedAs(object, program.instructions, main, Reached(main))
    BY <1>2, <1>9, LinkedRight
  <2>2. \A p \in Programs \ todo : LinkedAs(object, functions[p].instructions, p, Reached(p))
    BY <1>3, Zenon DEF LinkedExactly, LinkedAs, Body
  <2>3. \A p \in Programs' \ todo' :
          LinkedAs(object', functions'[p].instructions, p, Reached(p)')
    BY <1>1, <1>4, <1>5, <1>6, <1>10, <2>1, <2>2
  <2> QED
    BY <2>3, Zenon DEF LinkedExactly, LinkedAs, Body
<1>13. InfoMatches'
  <2>1. InfoRight(program, DOMAIN object.functions)
    BY <1>3, <1>8, InformedRight
  <2>2. \A p \in Programs \ todo : InfoRight(functions[p], DOMAIN functions)
    BY <1>3, Zenon DEF InfoMatches, InfoRight, Said
  <2>3. \A p \in Programs' \ todo' : InfoRight(functions'[p], DOMAIN functions')
    BY <1>3, <1>4, <1>6, <1>10, <2>1, <2>2
  <2> QED
    BY <2>3, Zenon DEF InfoMatches, InfoRight, Said
<1>14. FunctionsKept'
  <2>1. ASSUME NEW k \in DOMAIN functions'
        PROVE  \/ functions'[k] = object'.functions[k]
               \/ k \notin todo' /\ \A l \in DOMAIN functions' : k \notin Callees({l})'
    <3>1. CASE k # main
      <4>1. \/ functions[k] = object.functions[k]
            \/ k \notin todo /\ \A l \in DOMAIN functions : k \notin Callees({l})
        BY <1>3, <1>4, <2>1 DEF FunctionsKept
      <4> QED
        BY <1>1, <1>4, <1>5, <2>1, <3>1, <4>1
    <3>2. CASE k = main /\ Callees({main}) = {}
      BY <1>1, <1>3, <1>4, <3>2 DEF Linking
    <3>3. CASE k = main /\ Callees({main}) # {}
      <4>1. \A l \in DOMAIN object.functions : main \notin Callees({l})
        BY <1>3, <3>3 DEF Regular, Exposed
      <4> QED
        BY <1>1, <1>3, <1>4, <1>5, <3>3, <4>1
    <3> QED
      BY <3>1, <3>2, <3>3
  <2> QED
    BY <2>1 DEF FunctionsKept
<1>15. TypeOK'
  <2>1. DOMAIN stack' = {}
    BY <1>1
  <2> QED
    BY <1>1, <1>3, <1>4, <1>5, <2>1 DEF TypeOK
<1>16. OnlyRealErrors'
  BY <1>1 DEF OnlyRealErrors
<1> QED
  BY <1>1, <1>5, <1>11, <1>12, <1>13, <1>14, <1>15, <1>16 DEF IInv

-----------------------------------------------------------------------------
(* The theorems. They are about regular objects, which is all that there are unless *)
(* AllObjects. *)

\* Every step keeps the invariant.
LEMMA StepIInv ==
  ASSUME IInv, [Next]_vars
  PROVE  IInv'
<1>1. CASE \E p \in todo : Begin(p)
  BY <1>1, BeginStep
<1>2. ASSUME NEW i \in Pending,
             UnknownFunction(i) \/ FunctionInfoMismatch(i) \/ LinkAgain(i) \/ LinkFunction(i)
      PROVE  IInv'
  BY <1>2, UnknownFunctionStep, FunctionInfoMismatchStep, LinkAgainStep, LinkFunctionStep
<1>3. CASE Return
  BY <1>3, ReturnStep
<1>4. CASE Finish
  BY <1>4, FinishStep
<1>5. CASE UNCHANGED vars
  <2>1. UNCHANGED <<object, functions, todo, main, program, linked, stack, result>>
    BY <1>5 DEF vars
  <2>2. OnlyRealErrors'
    <3>1. Reached(main)' = Reached(main)
      BY <2>1 DEF Reached, Callees
    <3> QED
      BY <2>1, <3>1 DEF IInv, OnlyRealErrors
  <2> QED
    BY <2>1, <2>2, SameLink
<1> QED
  BY <1>1, <1>2, <1>3, <1>4, <1>5 DEF Next

\* The invariant holds in every state of every link of a regular object. While a program is
\* linked, what has been built of it is one copy of each function met so far, the frames
\* that relocate has open are of different functions, and each instruction that no open
\* frame has yet to come to is either no call or already reaches its callee.
THEOREM InductiveInvariant ==
  ASSUME AllObjects = FALSE
  PROVE  Spec => []IInv
<1>1. Init => IInv
  BY InitIInv
<1>2. IInv /\ [Next]_vars => IInv'
  BY StepIInv
<1> QED
  BY <1>1, <1>2, PTL DEF Spec

\* The variables keep their types.
THEOREM TypeCorrect ==
  ASSUME AllObjects = FALSE
  PROVE  Spec => []TypeOK
<1>1. IInv => TypeOK
  BY DEF IInv
<1> QED
  BY <1>1, InductiveInvariant, PTL

\* In a linked program every call and every reference, whatever its encoding and however
\* deep its function was linked, reaches the first instruction of a copy of its callee:
\* what relocate writes into imm is right also when the callee was linked before, or is
\* still being linked further up the recursion.
THEOREM CallsAlwaysLand ==
  ASSUME AllObjects = FALSE
  PROVE  Spec => []CallsLand
<1>1. IInv => CallsLand
  BY DEF IInv
<1> QED
  BY <1>1, InductiveInvariant, PTL

\* A linked program has its own code and exactly one copy of each function that it calls,
\* directly or not, also if functions call each other in a circle: linked_functions is
\* filled before the recursion, so link_function never copies a function twice.
THEOREM AlwaysLinkedExactly ==
  ASSUME AllObjects = FALSE
  PROVE  Spec => []LinkedExactly
<1>1. IInv => LinkedExactly
  BY DEF IInv
<1> QED
  BY <1>1, InductiveInvariant, PTL

\* func_info and line_info of a linked program say where each function and each line has
\* come to be: link_function rebases the infos of what it copies.
THEOREM InfoAlwaysMatches ==
  ASSUME AllObjects = FALSE
  PROVE  Spec => []InfoMatches
<1>1. IInv => InfoMatches
  BY DEF IInv
<1> QED
  BY <1>1, InductiveInvariant, PTL

\* Linking fails only for a reason in what the program reaches: a function that is not in
\* the object, or func_info on one side only.
THEOREM ErrorsAlwaysReal ==
  ASSUME AllObjects = FALSE
  PROVE  Spec => []OnlyRealErrors
<1>1. IInv => OnlyRealErrors
  BY DEF IInv
<1> QED
  BY <1>1, InductiveInvariant, PTL
=============================================================================
