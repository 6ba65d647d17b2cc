-------------------------- MODULE MCFunctionLinker --------------------------
(***************************************************************************)
(* The objects that TLC links: of a few functions in a few sections, with  *)
(* a few calls and references between them, in every encoding.             *)
(***************************************************************************)
EXTENDS FunctionLinker, FiniteSetsExt

CONSTANTS
  Sections,      \* sections with code
  NumFunctions,  \* bound: functions in the object
  MaxCalls       \* bound: calls and references to functions in the object

ASSUME SectionsAssumption ==
  TextSections \subseteq Sections /\ TextSections # {} /\ Sections \subseteq Nat \ {0}
ASSUME BoundsAssumption == NumFunctions \in Nat /\ MaxCalls \in Nat

Functions == 1 .. NumFunctions

\* How a call is encoded: relative to the call, or by a relocation against the symbol of
\* the function or of its section; or an address is taken (ld_imm64, of two instructions).
\* The linker skips the relocation of a call to something that is not in the object.
CallSite ==
  [from : Functions, to : Functions, how : {"relative", "symbol", "section", "reference"}]
    \union [from : Functions, to : {0}, how : {"extern"}]

\* The call sites of an object, in the order of its functions. Bound: one reference.
CallSites ==
  {calls \in UNION {[1 .. n -> CallSite] : n \in 0 .. MaxCalls} :
     /\ \A i \in 2 .. Len(calls) : calls[i - 1].from <= calls[i].from
     /\ \A i, j \in DOMAIN calls :
          calls[i].how = "reference" /\ calls[j].how = "reference" => i = j}

\* Functions are numbered by section, then by address. Bound: the first section is .text,
\* and not empty.
Layouts ==
  {section \in [Functions -> Sections] :
     /\ section[1] = Min(TextSections)
     /\ section[NumFunctions] \notin TextSections
     /\ \A f, g \in Functions : f < g => section[f] <= section[g]}

\* Only functions of one section call each other relatively; relocate_externs has dealt
\* with calls out of the object if it has BTF. Bounds: functions that nothing calls do not
\* call, and functions of one section do not call each other by symbol, which is resolved
\* as across sections.
Compiled(section, calls, informed) ==
  \A i \in DOMAIN calls :
    /\ calls[i].how = "relative" => section[calls[i].to] = section[calls[i].from]
    /\ calls[i].how = "symbol" => section[calls[i].to] # section[calls[i].from]
    /\ calls[i].how = "extern" => informed = {}
    /\ section[calls[i].from] \in TextSections =>
         \E j \in DOMAIN calls : calls[j].to = calls[i].from /\ calls[j].from # calls[i].from

\* Each function is its calls and references, then its exit. Functions of a section
\* follow one another.
Object(section, calls, informed) ==
  LET Width(c) == IF c.how = "reference" THEN 2 ELSE 1
      own == [f \in Functions |-> SelectSeq(calls, LAMBDA c : c.from = f)]
      size == [f \in Functions |->
                 1 + MapThenSumSet(LAMBDA i : Width(own[f][i]), DOMAIN own[f])]
      address == [f \in Functions |->
                    INS_SIZE * MapThenSumSet(LAMBDA g : size[g],
                                             {g \in 1 .. f - 1 : section[g] = section[f]})]
      Key(f) == IF f = 0 THEN Nowhere ELSE <<section[f], address[f]>>
      At(f, i) == <<section[f], address[f] + INS_SIZE * (i - 1)>>
      Position(f, n) == 1 + MapThenSumSet(LAMBDA j : Width(own[f][j]), 1 .. n - 1)
      SiteAt(f, i) == {n \in DOMAIN own[f] : Position(f, n) = i}
      Immediate(c, from) ==
        CASE c.how = "relative" -> (address[c.to] - from) \div INS_SIZE - 1
          [] c.how \in {"symbol", "extern"} -> -1
          [] c.how = "section" -> address[c.to] \div INS_SIZE - 1
          [] c.how = "reference" -> address[c.to]
      InstructionOf(f, i) ==
        IF SiteAt(f, i) = {}
        THEN [op |-> "other", imm |-> 0, from |-> At(f, i), to |-> Nowhere]
        ELSE LET c == own[f][CHOOSE n \in SiteAt(f, i) : TRUE] IN
             [op |-> IF c.how = "reference" THEN "reference" ELSE "call",
              imm |-> Immediate(c, At(f, i)[2]), from |-> At(f, i), to |-> Key(c.to)]
      RelocationOf(c) ==
        IF c.how = "symbol" THEN [kind |-> "symbol", size |-> 32, sym |-> Key(c.to)]
        ELSE [kind |-> "section", size |-> IF c.how = "reference" THEN 64 ELSE 32,
              sym |-> <<section[c.to], 0>>]
      \* The offsets of a program's infos are relative to it, a function's to its section.
      Base(f) == IF section[f] \in TextSections THEN address[f] \div INS_SIZE ELSE 0
      FunctionOf(f) ==
        [section_offset |-> address[f],
         instructions |-> [i \in 1 .. size[f] |-> InstructionOf(f, i)],
         func_info |-> IF f \in informed THEN <<[insn_off |-> Base(f), of |-> Key(f)]>>
                       ELSE <<>>,
         line_info |-> IF f \in informed
                       THEN [i \in 1 .. size[f] |->
                               [insn_off |-> Base(f) + i - 1, of |-> At(f, i)]]
                       ELSE <<>>]
      sites == {<<f, n>> \in Functions \X (1 .. MaxCalls) :
                  n \in DOMAIN own[f] /\ own[f][n].how \notin {"relative", "extern"}}
  IN [functions |-> [k \in {Key(f) : f \in Functions} |->
                       FunctionOf(CHOOSE f \in Functions : Key(f) = k)],
      relocations |-> [a \in {At(s[1], Position(s[1], s[2])) : s \in sites} |->
                         LET s == CHOOSE s \in sites : At(s[1], Position(s[1], s[2])) = a
                         IN RelocationOf(own[s[1]][s[2]])]]

\* All, some or none of the functions have infos.
MCObjects ==
  {Object(x[1], x[2], x[3]) :
     x \in {y \in Layouts \X CallSites \X {Functions, {}, Functions \ {NumFunctions}} :
              Compiled(y[1], y[2], y[3])}}
=============================================================================
