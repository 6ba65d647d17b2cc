--------------------------- MODULE FunctionLinker ---------------------------
(***************************************************************************)
(* Object::relocate_calls and FunctionLinker (aya-obj/src/relocation.rs):  *)
(* every program of an object gets a copy of the functions that it calls,  *)
(* directly or not, appended to its own instructions, and each call is     *)
(* pointed at the copy of its callee.                                      *)
(*                                                                         *)
(* The recursion of link_function and relocate is a stack of frames. An    *)
(* instruction is what the linker sees of it: whether it calls or takes an *)
(* address of code, and its immediate. `from` and `to` are not in the      *)
(* program: the place in the object that the instruction is a copy of, and *)
(* the function that it is meant to reach.                                 *)
(***************************************************************************)
EXTENDS Integers, Sequences, FiniteSets, SequencesExt

CONSTANTS
  Objects,       \* the objects to link, as parsed
  TextSections,  \* .text and .text.*, whose functions are no programs
  AllObjects     \* whether to link also the objects that are linked wrongly, see Regular

VARIABLES
  object,     \* Object as parsed
  functions,  \* Object::functions
  todo,       \* programs relocate_calls has not linked yet
  main,       \* the program that is being linked
  program,    \* the function that its link builds
  linked,     \* FunctionLinker::linked_functions
  stack,      \* the activations of relocate
  result      \* of relocate_calls

vars == <<object, functions, todo, main, program, linked, stack, result>>

-----------------------------------------------------------------------------
(* Objects, as a compiler emits them and Object::parse reads them *)

INS_SIZE == 8

\* A section and an address in it. Sections are numbered from 1.
Places == Nat \X Nat
Nowhere == <<0, 0>>

\* A reference is an ld_imm64, whose second half is one of the other instructions.
Instruction == [op : {"call", "reference", "other"}, imm : Int, from : Places, to : Places]
Info == [insn_off : Int, of : Places]
Function == [section_offset : Nat, instructions : Seq(Instruction),
             func_info : Seq(Info), line_info : Seq(Info)]
Relocation == [kind : {"symbol", "section"}, size : {32, 64}, sym : Places]

\* How ins says what it reaches: relative to the next instruction, or by a relocation
\* against the symbol of the function or of its section.
Relative(o, ins) ==
  /\ ins.from \notin DOMAIN o.relocations /\ ins.op = "call"
  /\ ins.to = <<ins.from[1], ins.from[2] + (ins.imm + 1) * INS_SIZE>>

Relocated(o, ins) ==
  /\ ins.from \in DOMAIN o.relocations
  /\ LET rel == o.relocations[ins.from] IN
       \/ rel.kind = "symbol" /\ ins.to = rel.sym
       \/ /\ rel.kind = "section" /\ rel.size = 32 /\ ins.op = "call"
          /\ ins.to = <<rel.sym[1], rel.sym[2] + (ins.imm + 1) * INS_SIZE>>
       \/ /\ rel.kind = "section" /\ rel.size = 64 /\ ins.op = "reference"
          /\ ins.to = <<rel.sym[1], rel.sym[2] + ins.imm>>

\* A call of something that is not in the object. The linker skips its relocation.
Extern(o, ins) ==
  ins.from \notin DOMAIN o.relocations /\ ins.op = "call" /\ ins.to = Nowhere /\ ins.imm = -1

\* Functions of a section do not overlap, and each call or reference has an encoding.
CodeParsed(o, k) ==
  LET code == o.functions[k].instructions IN
  /\ code # <<>>
  /\ \A l \in DOMAIN o.functions :
       l[1] = k[1] /\ k[2] < l[2] => k[2] + Len(code) * INS_SIZE <= l[2]
  /\ \A i \in DOMAIN code :
       /\ code[i].from = <<k[1], k[2] + (i - 1) * INS_SIZE>>
       /\ \/ code[i].op = "other" /\ code[i].from \notin DOMAIN o.relocations
          \/ /\ code[i].op # "other" /\ code[i].to \in DOMAIN o.functions
             /\ Relative(o, code[i]) \/ Relocated(o, code[i])
          \/ Extern(o, code[i])

\* The infos, if there are any, name the function and each of its instructions. The
\* offsets of a program's are relative to it, those of another function's to its section.
InfoParsed(k, fun) ==
  fun.func_info # <<>> =>
    LET base == fun.func_info[1].insn_off IN
    /\ k[1] \notin TextSections => base = 0
    /\ fun.func_info = <<[insn_off |-> base, of |-> k]>>
    /\ fun.line_info = [i \in DOMAIN fun.instructions |->
                          [insn_off |-> base + i - 1, of |-> fun.instructions[i].from]]

Parsed(o) ==
  /\ DOMAIN o.functions \subseteq Places \ {Nowhere}
  /\ DOMAIN o.relocations \subseteq Places
  /\ \A a \in DOMAIN o.relocations : o.relocations[a] \in Relocation
  /\ \A k \in DOMAIN o.functions :
       /\ o.functions[k] \in Function /\ o.functions[k].section_offset = k[2]
       /\ CodeParsed(o, k) /\ InfoParsed(k, o.functions[k])

ASSUME ObjectsAssumption == \A o \in Objects : Parsed(o)
ASSUME AllObjectsAssumption == AllObjects \in BOOLEAN

Programs == {k \in DOMAIN object.functions : k[1] \notin TextSections}

\* What the functions with these keys are meant to call or refer to.
Callees(keys) ==
  UNION {{ins.to : ins \in {x \in Range(object.functions[k].instructions) : x.op # "other"}} :
           k \in keys \ {Nowhere}}

\* Two kinds of objects are linked wrongly:
\* - a program that functions call and that calls functions: whoever links against it
\*   after it was linked copies its copies, and resolves once more what is resolved;
\* - a call out of the object at the very start of a function: the relocation is skipped,
\*   and the immediate, -1, is that of a call of the function itself.
Exposed == \E k \in DOMAIN object.functions, p \in Programs :
             p \in Callees({k}) /\ Callees({p}) # {}
Misled == \E k \in DOMAIN object.functions :
            LET first == object.functions[k].instructions[1]
            IN first.op = "call" /\ first.to = Nowhere
Regular == ~Exposed /\ ~Misled

-----------------------------------------------------------------------------
(* FunctionLinker *)

\* relocate starts at the code of `fun`, which is the last of the program.
Frame(key, code) ==
  LET start == Len(code) - Len(functions[key].instructions)
  IN [fun |-> key, start |-> start, next |-> start]

Top == Last(stack)

\* The place in the section of Top's function at which the linker looks for a relocation.
Place(i) == <<Top.fun[1], functions[Top.fun].section_offset + (i - Top.start) * INS_SIZE>>

\* The instructions of Top's function, by their index in the program, that are yet to be
\* relocated.
Pending ==
  {i \in Top.next .. Top.start + Len(functions[Top.fun].instructions) - 1 :
     program.instructions[i + 1].op = "call" \/ Place(i) \in DOMAIN object.relocations}

\* Section and address of what the instruction calls or refers to.
Callee(i) ==
  LET imm == program.instructions[i + 1].imm IN
  IF Place(i) \notin DOMAIN object.relocations
  THEN <<Place(i)[1], Place(i)[2] + (imm + 1) * INS_SIZE>>
  ELSE LET rel == object.relocations[Place(i)] IN
       <<rel.sym[1],
         CASE rel.kind = "symbol" -> rel.sym[2]
           [] rel.kind = "section" /\ rel.size = 32 -> rel.sym[2] + (imm + 1) * INS_SIZE
           [] rel.kind = "section" /\ rel.size = 64 -> rel.sym[2] + imm>>

\* Seeded fault: the distance is taken from the call, not from the instruction after it.
DistanceFromCall(callee, i) == callee - i

Distance(callee, i) == callee - i - 1

\* Seeded fault: after each callee the loop starts again.
AdvanceToStart(frames, i) == [frames EXCEPT ![Len(frames)].next = frames[Len(frames)].start]

\* The frames once instruction i of the last of them is done.
Advance(frames, i) == [frames EXCEPT ![Len(frames)].next = i + 1]

Patch(i, callee) ==
  program' = [program EXCEPT !.instructions[i + 1].imm = Distance(callee, i)]

\* Seeded fault: the copy is said to start where it ends.
CopyStartAfter(key) == Len(program.instructions) + Len(functions[key].instructions)

\* Where the copy of a function that is not linked yet will start.
CopyStart(key) == Len(program.instructions)

Fail ==
  /\ result' = "failed"
  /\ UNCHANGED <<object, functions, todo, main, program, linked, stack>>

\* Seeded fault: the lines are moved without regard to where the function was.
LinkInfoUnbased(fun, start) ==
  LET funcs == [i \in DOMAIN fun.func_info |->
                  [fun.func_info[i] EXCEPT !.insn_off = start]]
      lines == [i \in DOMAIN fun.line_info |->
                  [fun.line_info[i] EXCEPT !.insn_off = start + @]]
  IN [program EXCEPT !.instructions = @ \o fun.instructions,
                     !.func_info = @ \o funcs,
                     !.line_info = @ \o lines]

\* func_info is rebased to the start of the copy, line_info by what the function moved.
LinkInfo(fun, start) ==
  LET funcs == [i \in DOMAIN fun.func_info |->
                  [fun.func_info[i] EXCEPT !.insn_off = start]]
      lines == [i \in DOMAIN fun.line_info |->
                  [fun.line_info[i] EXCEPT
                     !.insn_off = start + @ - fun.line_info[1].insn_off]]
  IN [program EXCEPT !.instructions = @ \o fun.instructions,
                     !.func_info = @ \o funcs,
                     !.line_info = @ \o lines]

-----------------------------------------------------------------------------
(* relocate_calls *)

Begin(p) ==
  /\ result = "running" /\ stack = <<>> /\ p \in todo
  /\ main' = p
  /\ program' = functions[p]
  /\ linked' = <<>>
  /\ stack' = <<Frame(p, functions[p].instructions)>>
  /\ UNCHANGED <<object, functions, todo, result>>

\* Instruction i is the next that calls or refers to code.
Relocates(i) ==
  /\ result = "running" /\ stack # <<>>
  /\ i \in Pending /\ \A j \in Pending : i <= j

UnknownFunction(i) ==
  /\ Relocates(i)
  /\ Callee(i) \notin DOMAIN functions
  /\ Fail

\* Seeded fault: a function without func_info is an error in any program.
MismatchAlways(i) == functions[Callee(i)].func_info = <<>>

\* One of the two has func_info, the other has not.
Mismatch(i) == (functions[Callee(i)].func_info = <<>>) # (program.func_info = <<>>)

FunctionInfoMismatch(i) ==
  /\ Relocates(i)
  /\ Callee(i) \in DOMAIN functions /\ Mismatch(i)
  /\ Fail

Links(i) == Relocates(i) /\ Callee(i) \in DOMAIN functions /\ ~Mismatch(i)

\* Seeded fault: a function is taken for linked only while it is being linked.
IsLinkedWhileOpen(key) == \E f \in 2 .. Len(stack) : stack[f].fun = key

IsLinked(key) == key \in DOMAIN linked

\* link_function of a function that the program has.
LinkAgain(i) ==
  /\ Links(i) /\ IsLinked(Callee(i))
  /\ Patch(i, linked[Callee(i)])
  /\ stack' = Advance(stack, i)
  /\ UNCHANGED <<object, functions, todo, main, linked, result>>

\* link_function of another one: its copy is appended, and relocated before the call is.
LinkFunction(i) ==
  /\ Links(i) /\ ~IsLinked(Callee(i))
  /\ program' = LinkInfo(functions[Callee(i)], CopyStart(Callee(i)))
  /\ linked' = [k \in DOMAIN linked \union {Callee(i)} |->
                  IF k = Callee(i) THEN CopyStart(k) ELSE linked[k]]
  /\ stack' = Append([stack EXCEPT ![Len(stack)].next = i],
                     Frame(Callee(i), program'.instructions))
  /\ UNCHANGED <<object, functions, todo, main, result>>

\* The callee is done: the call that waits for it gets its distance.
Return ==
  /\ result = "running" /\ Len(stack) > 1 /\ Pending = {}
  /\ LET i == stack[Len(stack) - 1].next IN
       /\ Patch(i, Top.start)
       /\ stack' = Advance(Front(stack), i)
  /\ UNCHANGED <<object, functions, todo, main, linked, result>>

\* The linked program takes the place of the function, also for the programs to come.
Finish ==
  /\ result = "running" /\ Len(stack) = 1 /\ Pending = {}
  /\ functions' = [functions EXCEPT ![main] = program]
  /\ todo' = todo \ {main}
  /\ stack' = <<>>
  /\ result' = IF todo' = {} THEN "done" ELSE "running"
  /\ UNCHANGED <<object, main, program, linked>>

Init ==
  /\ object \in Objects
  /\ Programs # {} /\ (AllObjects \/ Regular)
  /\ functions = object.functions
  /\ todo = Programs
  /\ main = Nowhere /\ program = [instructions |-> <<>>]
  /\ linked = <<>> /\ stack = <<>>
  /\ result = "running"

Next ==
  \/ \E p \in todo : Begin(p)
  \/ /\ stack # <<>>
     /\ \E i \in Pending : UnknownFunction(i) \/ FunctionInfoMismatch(i)
                             \/ LinkAgain(i) \/ LinkFunction(i)
  \/ Return \/ Finish

Spec == Init /\ [][Next]_vars /\ WF_vars(Next)

-----------------------------------------------------------------------------
(* Properties *)

\* What program p calls, directly or not: the least set with the callees of p and of its
\* members.
Reached(p) ==
  {k \in DOMAIN object.functions \union {Nowhere} :
     \A S \in SUBSET (DOMAIN object.functions \union {Nowhere}) :
       Callees({p}) \union Callees(S) \subseteq S => k \in S}

\* The types of the variables.
TypeOK ==
  /\ DOMAIN functions = DOMAIN object.functions
  /\ todo \subseteq Programs
  /\ main \in Programs \union {Nowhere}
  /\ DOMAIN linked \subseteq DOMAIN functions
  /\ \A k \in DOMAIN linked : linked[k] \in 1 .. Len(program.instructions) - 1
  /\ \A f \in DOMAIN stack : /\ stack[f].fun \in DOMAIN functions
                             /\ stack[f].start \in Nat
                             /\ stack[f].next \in stack[f].start .. Len(program.instructions)
  /\ result \in {"running", "failed", "done"}

\* In a linked program each call, whatever its encoding and however deep its function was
\* linked, reaches the first instruction of a copy of its callee.
CallsLand ==
  \A p \in Programs \ todo :
    LET code == functions[p].instructions IN
    \A i \in DOMAIN code : code[i].op # "other" =>
      /\ i + 1 + code[i].imm \in DOMAIN code
      /\ code[i + 1 + code[i].imm].from = code[i].to

\* A linked program is its own code and then one copy of each function that it reaches,
\* also if they call each other in a circle, and of nothing else.
LinkedExactly ==
  \A p \in Programs \ todo :
    LET code == functions[p].instructions
        own == Len(object.functions[p].instructions)
        copied == {code[i].from : i \in own + 1 .. Len(code)}
    IN /\ SubSeq(code, 1, own) # <<>> /\ code[1].from = p
       /\ copied = UNION {{ins.from : ins \in Range(object.functions[k].instructions)} :
                            k \in Reached(p) \ {Nowhere}}
       /\ Len(code) = own + Cardinality(copied)

\* The infos of a linked program, if it has any, name each function at the start of
\* its copy and each line at the copy of its instruction.
InfoMatches ==
  \A p \in Programs \ todo : functions[p].func_info # <<>> =>
    LET code == functions[p].instructions IN
    /\ {<<info.insn_off, info.of>> : info \in Range(functions[p].func_info)} =
         {<<i - 1, code[i].from>> : i \in {j \in DOMAIN code : code[j].from \in DOMAIN functions}}
    /\ {<<info.insn_off, info.of>> : info \in Range(functions[p].line_info)} =
         {<<i - 1, code[i].from>> : i \in DOMAIN code}

\* Linking a program fails only for what the program reaches: a function that is not in
\* the object, or one that has func_info where the program has none, or the reverse.
OnlyRealErrors ==
  result = "failed" =>
    \/ Nowhere \in Reached(main)
    \/ \E k \in Reached(main) :
         (object.functions[k].func_info = <<>>) # (object.functions[main].func_info = <<>>)

\* relocate_calls comes to an end, also for functions that call each other in a circle.
Terminates == <>(result # "running")
=============================================================================
