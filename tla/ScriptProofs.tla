--------------------------- MODULE ScriptProofs ---------------------------
(***************************************************************************)
(* Proofs about every script that ScriptEngine may run: the list of IFs,    *)
(* what assignments compute, the texts of the arguments, and that control   *)
(* follows the nesting of the text.                                         *)
(***************************************************************************)
EXTENDS ScriptEngine, TLAPS

(****************************************************************************)
(* The list of IFs.                                                         *)

\* The IFs that have been passed are in the list, each with the place behind it.
ListedBelow(n) ==
  \A m \in DOMAIN script : m < n /\ Is(script[m], FUNCTION_IF)
    => \E j \in DOMAIN ifs : ifs[j].ifPosition = m + 1

\* What the pass over the IFs has done up to its line, and what it leaves to the run.
ListInv ==
  /\ status = "parse" =>
       /\ ifEntry = 0
       /\ \A j \in DOMAIN ifs : ifs[j].ifPosition <= pc
       /\ ListedBelow(pc)
  /\ status = "run" => ListedBelow(Len(script) + 1)

\* Variables are records.
VarsInv ==
  /\ vars = [n \in DOMAIN vars |-> vars[n]]
  /\ \A n \in DOMAIN vars : vars[n] = [value |-> vars[n].value, readOnly |-> vars[n].readOnly]

ScriptInv == ScriptTypeOK /\ ListInv /\ VarsInv

\* The line at pc, as the assumption on scripts has it.
LEMMA LineOK ==
  ASSUME ScriptTypeOK, AtLine
  PROVE  /\ script[pc] \in Seq(LineArgument) /\ Len(script[pc]) \in Slots
         /\ Is(script[pc], FUNCTION_VAR) /\ Len(script[pc]) > 1 => script[pc][2].kind = "name"
         /\ \A i \in 1..Len(script[pc]) :
              /\ script[pc][i] \in LineArgument
              /\ script[pc][i].kind \in {"name", "text", "label"} <=> script[pc][i].name # NULL
<1>1. script \in Scripts /\ pc \in DOMAIN script
  BY DEF ScriptTypeOK, AtLine
<1>2. /\ script \in Seq(Seq(LineArgument)) /\ Len(script[pc]) \in Slots
      /\ \A i \in DOMAIN script[pc] : script[pc][i].kind \in {"name", "text", "label"} <=> script[pc][i].name # NULL
      /\ Is(script[pc], FUNCTION_VAR) /\ Len(script[pc]) > 1 => script[pc][2].kind = "name"
  BY <1>1, ScriptsAssumption
<1>3. script[pc] \in Seq(LineArgument)
  BY <1>1, <1>2
<1>4. \A i \in 1..Len(script[pc]) : i \in DOMAIN script[pc] /\ script[pc][i] \in LineArgument
  BY <1>3
<1> QED BY <1>2, <1>3, <1>4

\* An argument decoded.
LEMMA DecodedOK ==
  ASSUME NEW a \in LineArgument, NEW value
  PROVE  ArgumentOK(decodeArgument(a, value))
<1>1. a.name \in Names \cup {NULL} /\ a.kind \in {"function", "operator", "number", "name", "text", "label"}
  BY DEF LineArgument
<1>2. CASE a.kind = "function"
  BY Zenon, <1>2 DEF decodeArgument, ArgumentOK
<1>3. CASE a.kind = "operator"
  BY Zenon, <1>3 DEF decodeArgument, ArgumentOK
<1>4. CASE a.kind = "number"
  BY Zenon, <1>4 DEF decodeArgument, ArgumentOK
<1>5. CASE a.kind = "name" /\ a.name \in DOMAIN vars
  BY Zenon, <1>1, <1>5 DEF decodeArgument, ArgumentOK
<1>6. CASE a.kind \in {"name", "text", "label"} /\ ~(a.kind = "name" /\ a.name \in DOMAIN vars)
  BY <1>1, <1>6 DEF decodeArgument, ArgumentOK
<1> QED BY <1>1, <1>2, <1>3, <1>4, <1>5, <1>6

\* Whatever is decoded exists.
LEMMA DecodedExists == \A a, value : decodeArgument(a, value).exist = TRUE
BY DEF decodeArgument

\* The arguments of a line are well formed.
LEMMA ParsedOK ==
  ASSUME ScriptTypeOK, AtLine, ReadLine
  PROVE  DOMAIN args' = Slots /\ \A i \in Slots : ArgumentOK(args'[i])
<1>1. args' = Parsed(script[pc])
  BY DEF ReadLine
<1>2. ASSUME NEW i \in Slots PROVE ArgumentOK(Cleaned[i])
  BY Zenon DEF Cleaned, ArgumentOK, ScriptTypeOK
<1>3. ASSUME NEW i \in Slots PROVE ArgumentOK(Parsed(script[pc])[i])
  <2>1. CASE i <= Len(script[pc])
    <3>1. script[pc][i] \in LineArgument BY <2>1, LineOK DEF Slots
    <3>2. ArgumentOK(decodeArgument(script[pc][i], args[i].value)) BY <3>1, DecodedOK
    <3> QED BY <3>2, <2>1 DEF Parsed
  <2>2. CASE ~(i <= Len(script[pc]))
    BY <2>2, <1>2 DEF Parsed
  <2> QED BY <2>1, <2>2
<1> QED BY <1>1, <1>3 DEF Parsed

\* Nothing but the arguments, the end and the mask are touched by most lines.
LEMMA GoesOnOK ==
  ASSUME ScriptInv, AtLine, NEW place, GoesOn(place), ReadLine, interruptible' \in BOOLEAN,
         place = NotFound \/ place \in 1..Len(script) + 1,
         ifs' \in Seq(IfStatement), Len(ifs') = Len(ifs),
         \A j \in DOMAIN ifs : /\ ifs'[j].ifPosition = ifs[j].ifPosition
                               /\ ifs'[j].elsePosition = ifs[j].elsePosition
                               /\ ifs'[j].endifPosition = ifs[j].endifPosition,
         ifEntry' \in 0..Len(ifs),
         DOMAIN vars' \subseteq Names, \A n \in DOMAIN vars' : vars'[n].readOnly \in BOOLEAN,
         VarsInv'
  PROVE  ScriptInv'
<1>1. DOMAIN ifs' = DOMAIN ifs
  BY DEF ScriptInv, ScriptTypeOK
<1>2. status = "run" /\ status' = "run" /\ script' = script
  BY DEF AtLine, GoesOn
<1>3. pc' \in 1..Len(script) + 1
  <2>1. Len(script) \in Nat
    BY ScriptsAssumption DEF ScriptInv, ScriptTypeOK
  <2> QED BY <2>1 DEF GoesOn
<1>4. DOMAIN args' = Slots /\ \A i \in Slots : ArgumentOK(args'[i])
  BY ParsedOK DEF ScriptInv
<1>5. \A j \in DOMAIN ifs : /\ Behind(ifs[j], ifs[j].elsePosition)'
                             /\ Behind(ifs[j], ifs[j].endifPosition)'
  BY <1>2 DEF ScriptInv, ScriptTypeOK, Behind
<1>6. ScriptTypeOK'
  BY <1>1, <1>2, <1>3, <1>4, <1>5 DEF ScriptInv, ScriptTypeOK, ArgumentOK
<1>7. ListInv'
  BY <1>1, <1>2 DEF ScriptInv, ListInv, ListedBelow, Is
<1> QED BY <1>6, <1>7 DEF ScriptInv

\* The end of a script leaves empty lists.
LEMMA EndOK ==
  ASSUME ScriptInv, NEW how \in {"done", "escaped"}, endExecution(how),
         DOMAIN args' = Slots, \A i \in Slots : ArgumentOK(args'[i])
  PROVE  ScriptInv'
<1>1. ifs' \in Seq(IfStatement) /\ DOMAIN ifs' = {} /\ DOMAIN vars' = {}
  BY DEF endExecution
<1>2. VarsInv'
  BY <1>1 DEF VarsInv, endExecution
<1>3. ScriptTypeOK'
  BY <1>1 DEF ScriptInv, ScriptTypeOK, endExecution, ArgumentOK
<1>4. ListInv'
  BY DEF ListInv, endExecution
<1> QED BY <1>2, <1>3, <1>4 DEF ScriptInv

\* An assertion recorded in the list moves nothing in it.
LEMMA AssertionOK ==
  ASSUME ScriptTypeOK, NEW j \in DOMAIN ifs, NEW b \in BOOLEAN,
         ifs' = [ifs EXCEPT ![j].validAssertion = b]
  PROVE  /\ ifs' \in Seq(IfStatement) /\ Len(ifs') = Len(ifs)
         /\ \A k \in DOMAIN ifs : /\ ifs'[k].ifPosition = ifs[k].ifPosition
                                  /\ ifs'[k].elsePosition = ifs[k].elsePosition
                                  /\ ifs'[k].endifPosition = ifs[k].endifPosition
<1>1. ifs \in Seq(IfStatement) BY DEF ScriptTypeOK
<1>2. ifs[j] \in IfStatement BY <1>1
<1> DEFINE e == [ifs[j] EXCEPT !.validAssertion = b]
<1>3. /\ e \in IfStatement /\ e.ifPosition = ifs[j].ifPosition
      /\ e.elsePosition = ifs[j].elsePosition /\ e.endifPosition = ifs[j].endifPosition
  BY <1>2 DEF IfStatement
<1>4. ifs' = [ifs EXCEPT ![j] = e] OBVIOUS
<1> HIDE DEF e
<1>5. ifs' \in Seq(IfStatement) /\ Len(ifs') = Len(ifs)
  BY <1>1, <1>3, <1>4
<1>6. \A k \in DOMAIN ifs : ifs'[k] = IF k = j THEN e ELSE ifs[k]
  BY <1>1, <1>4
<1> QED BY <1>3, <1>5, <1>6

\* The mask, as a line leaves it.
LEMMA MaskOK == \A line : Unmasked(line) \in BOOLEAN
BY DEF Unmasked

\* The length of the script, and the place behind a line.
LEMMA PlaceOK ==
  ASSUME ScriptTypeOK
  PROVE  /\ Len(script) \in Nat /\ DOMAIN script = 1..Len(script)
         /\ pc \in DOMAIN script => pc + 1 \in 1..Len(script) + 1
<1>1. script \in Seq(Seq(LineArgument)) BY ScriptsAssumption DEF ScriptTypeOK
<1> QED BY <1>1

\* A line that changes neither list goes on.
LEMMA PlainOK ==
  ASSUME ScriptInv, AtLine, ReadLine, NEW place, GoesOn(place),
         place = NotFound \/ place \in 1..Len(script) + 1,
         interruptible' \in BOOLEAN, UNCHANGED <<ifs, vars>>, ifEntry' \in 0..Len(ifs)
  PROVE  ScriptInv'
<1>1. /\ ifs' \in Seq(IfStatement) /\ DOMAIN vars' \subseteq Names
      /\ \A n \in DOMAIN vars' : vars'[n].readOnly \in BOOLEAN
  BY DEF ScriptInv, ScriptTypeOK
<1>2. VarsInv' BY DEF ScriptInv, VarsInv
<1> QED BY <1>1, <1>2, GoesOnOK

\* An entry in which a place is recorded.
LEMMA EntryOK ==
  ASSUME NEW e \in IfStatement, NEW place \in Nat
  PROVE  /\ [e EXCEPT !.elsePosition = place] \in IfStatement
         /\ [e EXCEPT !.endifPosition = place] \in IfStatement
         /\ [e EXCEPT !.elsePosition = place].ifPosition = e.ifPosition
         /\ [e EXCEPT !.endifPosition = place].ifPosition = e.ifPosition
         /\ [e EXCEPT !.elsePosition = place].elsePosition = place
         /\ [e EXCEPT !.endifPosition = place].elsePosition = e.elsePosition
         /\ [e EXCEPT !.elsePosition = place].endifPosition = e.endifPosition
         /\ [e EXCEPT !.endifPosition = place].endifPosition = place
         /\ e.ifPosition \in Nat
BY DEF IfStatement

\* The pass over the IFs keeps the list in order.
LEMMA ParseOK ==
  ASSUME ScriptInv, parseFileForIFStatements
  PROVE  ScriptInv'
<1>1. /\ ifs \in Seq(IfStatement) /\ pc \in 1..Len(script) /\ Len(script) \in Nat
      /\ DOMAIN ifs = 1..Len(ifs) /\ Len(ifs) \in Nat
      /\ \A j \in DOMAIN ifs : ifs[j] \in IfStatement /\ ifs[j].ifPosition <= pc
      /\ \A j \in DOMAIN ifs : /\ Behind(ifs[j], ifs[j].elsePosition)
                               /\ Behind(ifs[j], ifs[j].endifPosition)
      /\ ListedBelow(pc) /\ ifEntry = 0
  BY PlaceOK DEF ScriptInv, ScriptTypeOK, parseFileForIFStatements, ListInv
<1>2. /\ pc' = pc + 1 /\ script' = script /\ status' = "parse" /\ ifEntry' = 0
      /\ UNCHANGED <<args, vars, interruptible>>
  BY <1>1 DEF parseFileForIFStatements
<1> DEFINE Good(list) ==
      /\ list \in Seq(IfStatement)
      /\ \A j \in DOMAIN list : /\ list[j].ifPosition <= pc + 1
                                /\ Behind(list[j], list[j].elsePosition)
                                /\ Behind(list[j], list[j].endifPosition)
      /\ \A m \in DOMAIN script : m < pc + 1 /\ Is(script[m], FUNCTION_IF)
           => \E j \in DOMAIN list : list[j].ifPosition = m + 1
<1>3. Good(ifs') => ScriptInv'
  <2> SUFFICES ASSUME Good(ifs') PROVE ScriptInv'
    OBVIOUS
  <2>1. ScriptTypeOK'
    BY <1>1, <1>2 DEF ScriptInv, ScriptTypeOK, Behind, ArgumentOK
  <2>2. ListInv' BY <1>2 DEF ListInv, ListedBelow, Is
  <2>3. VarsInv' BY <1>2 DEF ScriptInv, VarsInv
  <2> QED BY <2>1, <2>2, <2>3 DEF ScriptInv
<1>4. CASE Is(script[pc], FUNCTION_IF) /\ ifs' = Append(ifs, NewIf)
  <2>1. NewIf \in IfStatement /\ NewIf.ifPosition = pc + 1
        /\ NewIf.elsePosition = NotFound /\ NewIf.endifPosition = NotFound
    BY <1>1 DEF NewIf, IfStatement
  <2> HIDE DEF NewIf
  <2>2. /\ ifs' \in Seq(IfStatement) /\ DOMAIN ifs' = 1..Len(ifs) + 1
        /\ \A j \in 1..Len(ifs) : ifs'[j] = ifs[j]
        /\ ifs'[Len(ifs) + 1] = NewIf
    BY <1>1, <1>4, <2>1
  <2>3. \A j \in DOMAIN ifs' : /\ ifs'[j].ifPosition <= pc + 1
                               /\ Behind(ifs'[j], ifs'[j].elsePosition)
                               /\ Behind(ifs'[j], ifs'[j].endifPosition)
    <3> SUFFICES ASSUME NEW j \in DOMAIN ifs'
                 PROVE  /\ ifs'[j].ifPosition <= pc + 1
                        /\ Behind(ifs'[j], ifs'[j].elsePosition)
                        /\ Behind(ifs'[j], ifs'[j].endifPosition)
      OBVIOUS
    <3>1. CASE j \in 1..Len(ifs)
      <4>1. ifs'[j] = ifs[j] /\ j \in DOMAIN ifs BY <1>1, <2>2, <3>1
      <4>2. ifs[j].ifPosition \in Nat BY <1>1, <4>1 DEF IfStatement
      <4> QED BY <1>1, <4>1, <4>2
    <3>2. CASE j = Len(ifs) + 1
      BY <1>1, <2>1, <2>2, <3>2 DEF Behind
    <3> QED BY <1>1, <2>2, <3>1, <3>2
  <2>4. ASSUME NEW m \in DOMAIN script, m < pc + 1, Is(script[m], FUNCTION_IF)
        PROVE  \E j \in DOMAIN ifs' : ifs'[j].ifPosition = m + 1
    <3>1. CASE m = pc
      BY <1>1, <2>1, <2>2, <3>1
    <3>2. CASE m < pc
      <4>1. PICK j \in DOMAIN ifs : ifs[j].ifPosition = m + 1
        BY <1>1, <2>4, <3>2 DEF ListedBelow
      <4> QED BY <1>1, <2>2, <4>1
    <3> QED BY <1>1, <2>4, <3>1, <3>2, PlaceOK DEF ScriptInv
  <2>5. Good(ifs') BY <2>2, <2>3, <2>4
  <2> QED BY <2>5, <1>3
<1>5. ASSUME NEW j \in DOMAIN ifs, NEW e \in IfStatement, ifs' = [ifs EXCEPT ![j] = e],
             e.ifPosition = ifs[j].ifPosition,
             Behind(e, e.elsePosition), Behind(e, e.endifPosition),
             ~Is(script[pc], FUNCTION_IF)
      PROVE  ScriptInv'
  <2>1. /\ ifs' \in Seq(IfStatement) /\ DOMAIN ifs' = DOMAIN ifs
        /\ \A k \in DOMAIN ifs : ifs'[k] = IF k = j THEN e ELSE ifs[k]
    BY <1>1, <1>5
  <2>2. \A k \in DOMAIN ifs : ifs[k].ifPosition \in Nat /\ ifs'[k].ifPosition = ifs[k].ifPosition
    BY <1>1, <1>5, <2>1 DEF IfStatement
  <2>3. \A k \in DOMAIN ifs' : /\ ifs'[k].ifPosition <= pc + 1
                               /\ Behind(ifs'[k], ifs'[k].elsePosition)
                               /\ Behind(ifs'[k], ifs'[k].endifPosition)
    BY <1>1, <1>5, <2>1, <2>2
  <2>4. \A m \in DOMAIN script : m < pc + 1 /\ Is(script[m], FUNCTION_IF)
           => \E k \in DOMAIN ifs' : ifs'[k].ifPosition = m + 1
    BY <1>1, <1>5, <2>1, <2>2, PlaceOK DEF ListedBelow, ScriptInv
  <2>5. Good(ifs') BY <2>1, <2>3, <2>4
  <2> QED BY <2>5, <1>3
<1>6. CASE /\ Is(script[pc], FUNCTION_ELSE)
           /\ \E j \in DOMAIN ifs : ifs' = [ifs EXCEPT ![j].elsePosition = pc + 1]
  <2>1. PICK j \in DOMAIN ifs : ifs' = [ifs EXCEPT ![j].elsePosition = pc + 1]
    BY Zenon, <1>6
  <2> DEFINE e == [ifs[j] EXCEPT !.elsePosition = pc + 1]
  <2>2. ifs[j] \in IfStatement /\ pc + 1 \in Nat BY <1>1
  <2>3. /\ e \in IfStatement /\ e.ifPosition = ifs[j].ifPosition /\ ifs[j].ifPosition \in Nat
        /\ e.elsePosition = pc + 1 /\ e.endifPosition = ifs[j].endifPosition
    BY Zenon, <2>2, EntryOK
  <2>4. Behind(e, e.elsePosition) /\ Behind(e, e.endifPosition)
    <3> HIDE DEF e
    <3>1. ifs[j].ifPosition <= pc /\ Behind(ifs[j], ifs[j].endifPosition) BY <1>1
    <3> QED BY <1>1, <2>3, <3>1 DEF Behind
  <2>5. ifs' = [ifs EXCEPT ![j] = e] BY <2>1
  <2>6. ~Is(script[pc], FUNCTION_IF)
    BY <1>6 DEF Is, Fn, FUNCTION_IF, FUNCTION_ELSE
  <2> HIDE DEF e
  <2> QED BY Zenon, <1>5, <2>3, <2>4, <2>5, <2>6
<1>7. CASE /\ Is(script[pc], FUNCTION_ENDIF)
           /\ \E j \in DOMAIN ifs : ifs' = [ifs EXCEPT ![j].endifPosition = pc + 1]
  <2>1. PICK j \in DOMAIN ifs : ifs' = [ifs EXCEPT ![j].endifPosition = pc + 1]
    BY Zenon, <1>7
  <2> DEFINE e == [ifs[j] EXCEPT !.endifPosition = pc + 1]
  <2>2. ifs[j] \in IfStatement /\ pc + 1 \in Nat BY <1>1
  <2>3. /\ e \in IfStatement /\ e.ifPosition = ifs[j].ifPosition /\ ifs[j].ifPosition \in Nat
        /\ e.endifPosition = pc + 1 /\ e.elsePosition = ifs[j].elsePosition
    BY Zenon, <2>2, EntryOK
  <2>4. Behind(e, e.elsePosition) /\ Behind(e, e.endifPosition)
    <3> HIDE DEF e
    <3>1. ifs[j].ifPosition <= pc /\ Behind(ifs[j], ifs[j].elsePosition) BY <1>1
    <3> QED BY <1>1, <2>3, <3>1 DEF Behind
  <2>5. ifs' = [ifs EXCEPT ![j] = e] BY <2>1
  <2>6. ~Is(script[pc], FUNCTION_IF)
    BY <1>7 DEF Is, Fn, FUNCTION_IF, FUNCTION_ENDIF
  <2> HIDE DEF e
  <2> QED BY Zenon, <1>5, <2>3, <2>4, <2>5, <2>6
<1>8. CASE ~Is(script[pc], FUNCTION_IF) /\ ifs' = ifs
  <2>1. Good(ifs')
    BY <1>1, <1>8, PlaceOK DEF ListedBelow, ScriptInv, IfStatement
  <2> QED BY <2>1, <1>3
<1> QED BY <1>4, <1>6, <1>7, <1>8 DEF parseFileForIFStatements

\* The lines that look an entry up.
LEMMA IfLinesOK ==
  ASSUME ScriptInv, RunIf \/ RunElse \/ RunEndif
  PROVE  ScriptInv'
<1>1. AtLine /\ ReadLine BY DEF RunIf, RunElse, RunEndif, Executes
<1>2. ScriptTypeOK /\ VarsInv BY DEF ScriptInv
<1>3. /\ Len(script) \in Nat /\ pc + 1 \in 1..Len(script) + 1
      /\ DOMAIN ifs = 1..Len(ifs) /\ Len(ifs) \in Nat
      /\ ifs \in Seq(IfStatement)
  BY <1>1, <1>2, PlaceOK DEF AtLine, ScriptTypeOK
<1>4. interruptible' \in BOOLEAN /\ UNCHANGED vars
  BY MaskOK DEF RunIf, RunElse, RunEndif
<1>5. /\ DOMAIN vars' \subseteq Names /\ \A n \in DOMAIN vars' : vars'[n].readOnly \in BOOLEAN
      /\ VarsInv'
  BY <1>2, <1>4 DEF ScriptTypeOK, VarsInv
<1>6. ASSUME NEW j \in DOMAIN ifs
      PROVE  /\ ifs[j].elsePosition = NotFound \/ ifs[j].elsePosition \in 1..Len(script) + 1
             /\ ifs[j].endifPosition = NotFound \/ ifs[j].endifPosition \in 1..Len(script) + 1
  <2>1. ifs[j] \in IfStatement BY <1>3
  <2>2. Behind(ifs[j], ifs[j].elsePosition) /\ Behind(ifs[j], ifs[j].endifPosition)
    BY <1>2 DEF ScriptTypeOK
  <2> QED BY <1>3, <2>1, <2>2 DEF Behind, IfStatement
<1>7. CASE RunIf
  <2> DEFINE holds == ifFunction(args'[2].value, args'[3].value, args'[4].value)
  <2>1. holds \in BOOLEAN BY DEF ifFunction
  <2> HIDE DEF holds
  <2>2. PICK j \in DOMAIN ifs :
          /\ ifEntry' = j /\ ifs' = [ifs EXCEPT ![j].validAssertion = holds]
          /\ GoesOn(IF holds THEN pc + 1
                    ELSE IF ifs[j].elsePosition # NotFound THEN ifs[j].elsePosition
                                                           ELSE ifs[j].endifPosition)
    BY Zenon, <1>7 DEF RunIf, holds
  <2>3. /\ ifs' \in Seq(IfStatement) /\ Len(ifs') = Len(ifs)
        /\ \A k \in DOMAIN ifs : /\ ifs'[k].ifPosition = ifs[k].ifPosition
                                 /\ ifs'[k].elsePosition = ifs[k].elsePosition
                                 /\ ifs'[k].endifPosition = ifs[k].endifPosition
    BY Zenon, <1>2, <2>1, <2>2, AssertionOK
  <2>4. PICK place : GoesOn(place) /\ (place = NotFound \/ place \in 1..Len(script) + 1)
    BY <1>3, <1>6, <2>2
  <2>5. ifEntry' \in 0..Len(ifs) BY <1>3, <2>2
  <2> QED BY <1>1, <1>4, <1>5, <2>3, <2>4, <2>5, GoesOnOK
<1>8. CASE RunElse
  <2>1. PICK j \in DOMAIN ifs :
          /\ ifEntry' = j
          /\ GoesOn(IF ifs[j].validAssertion THEN ifs[j].endifPosition ELSE pc + 1)
    BY <1>8 DEF RunElse
  <2>2. PICK place : GoesOn(place) /\ (place = NotFound \/ place \in 1..Len(script) + 1)
    BY <1>3, <1>6, <2>1
  <2>3. ifEntry' \in 0..Len(ifs) /\ UNCHANGED ifs BY <1>3, <1>8, <2>1 DEF RunElse
  <2> QED BY <1>1, <1>4, <2>2, <2>3, PlainOK
<1>9. CASE RunEndif
  <2>1. PICK j \in DOMAIN ifs :
          /\ ifEntry' = j /\ ifs' = [ifs EXCEPT ![j].validAssertion = FALSE]
    BY Zenon, <1>9 DEF RunEndif
  <2>2. /\ ifs' \in Seq(IfStatement) /\ Len(ifs') = Len(ifs)
        /\ \A k \in DOMAIN ifs : /\ ifs'[k].ifPosition = ifs[k].ifPosition
                                 /\ ifs'[k].elsePosition = ifs[k].elsePosition
                                 /\ ifs'[k].endifPosition = ifs[k].endifPosition
    BY Zenon, <1>2, <2>1, AssertionOK
  <2>3. GoesOn(pc + 1) BY <1>9 DEF RunEndif
  <2>4. ifEntry' \in 0..Len(ifs) BY <1>3, <2>1
  <2> QED BY <1>1, <1>3, <1>4, <1>5, <2>2, <2>3, <2>4, GoesOnOK
<1> QED BY <1>7, <1>8, <1>9

\* A line after which nothing runs.
LEMMA StopsOK ==
  ASSUME ScriptInv, AtLine, ReadLine, status' \in {"booted", "halted", "wild"},
         UNCHANGED <<script, pc, ifs, vars>>, interruptible' \in BOOLEAN
  PROVE  ScriptInv'
<1>1. DOMAIN args' = Slots /\ \A i \in Slots : ArgumentOK(args'[i])
  BY ParsedOK DEF ScriptInv
<1>2. ScriptTypeOK'
  BY <1>1 DEF ScriptInv, ScriptTypeOK, Behind, ArgumentOK
<1>3. ListInv' /\ VarsInv' BY DEF ScriptInv, ListInv, VarsInv
<1> QED BY <1>2, <1>3 DEF ScriptInv

\* The lines that change variables.
LEMMA VarLinesOK ==
  ASSUME ScriptInv, RunVar \/ \E input \in Params : RunAssignment(input)
  PROVE  ScriptInv'
<1>1. AtLine /\ ReadLine BY DEF RunVar, RunAssignment, Executes
<1>2. ScriptTypeOK /\ VarsInv BY DEF ScriptInv
<1>3. /\ ifs \in Seq(IfStatement) /\ ifEntry \in 0..Len(ifs) /\ pc + 1 \in 1..Len(script) + 1
      /\ DOMAIN vars \subseteq Names /\ \A n \in DOMAIN vars : vars[n].readOnly \in BOOLEAN
  BY <1>1, <1>2, PlaceOK DEF AtLine, ScriptTypeOK
<1>4. ASSUME GoesOn(pc + 1), UNCHANGED <<ifs, ifEntry>>, interruptible' \in BOOLEAN,
             DOMAIN vars' \subseteq Names, \A n \in DOMAIN vars' : vars'[n].readOnly \in BOOLEAN,
             VarsInv'
      PROVE  ScriptInv'
  BY <1>1, <1>3, <1>4, GoesOnOK
<1>5. CASE RunVar
  <2> DEFINE value == IF args'[4].exist THEN args'[4].value ELSE 0
  <2>1. /\ vars' = variableFunction(args'[2].text, value) /\ args'[2].exist
        /\ Is(script[pc], FUNCTION_VAR)
        /\ GoesOn(pc + 1) /\ UNCHANGED <<ifs, ifEntry>> /\ interruptible' \in BOOLEAN
    BY <1>5 DEF RunVar, Executes
  <2> HIDE DEF value
  <2>2. 2 \in Slots /\ args'[2] = Parsed(script[pc])[2] /\ Len(script[pc]) \in Nat
    BY <1>1, <1>2, LineOK DEF ReadLine, Slots
  <2>3. 2 <= Len(script[pc])
    BY <2>1, <2>2 DEF Parsed, Cleaned
  <2>4. /\ script[pc][2] \in LineArgument /\ script[pc][2].kind = "name"
        /\ script[pc][2].name # NULL
    BY <1>1, <1>2, <2>1, <2>2, <2>3, LineOK
  <2>5. args'[2].text = script[pc][2].name
    BY <2>2, <2>3, <2>4 DEF Parsed, decodeArgument
  <2>6. args'[2].text \in Names
    BY <2>4, <2>5 DEF LineArgument
  <2>7. /\ DOMAIN vars' \subseteq Names /\ \A n \in DOMAIN vars' : vars'[n].readOnly \in BOOLEAN
        /\ VarsInv'
    BY Zenon, <1>2, <1>3, <2>1, <2>6 DEF variableFunction, VarsInv
  <2> QED BY <1>4, <2>1, <2>7
<1>6. CASE \E input \in Params : RunAssignment(input)
  <2>1. PICK input \in Params : RunAssignment(input) BY <1>6
  <2> DEFINE acc == Accumulator(args', input)
  <2>2. UNCHANGED <<ifs, ifEntry>> /\ interruptible' \in BOOLEAN
    BY <2>1, MaskOK DEF RunAssignment
  <2>3. \/ status' = "halted" /\ UNCHANGED <<script, pc, vars>>
        \/ GoesOn(pc + 1) /\ vars' = updateVariable(args'[1].text, acc.value)
        \/ GoesOn(pc + 1) /\ vars' = vars
    BY <2>1 DEF RunAssignment
  <2> HIDE DEF acc
  <2>4. CASE status' = "halted" /\ UNCHANGED <<script, pc, vars>>
    BY <1>1, <2>2, <2>4, StopsOK
  <2>5. CASE GoesOn(pc + 1) /\ vars' = vars
    BY <1>2, <1>3, <1>4, <2>2, <2>5 DEF VarsInv
  <2>6. CASE GoesOn(pc + 1) /\ vars' = updateVariable(args'[1].text, acc.value)
    <3>1. DOMAIN vars' = DOMAIN vars /\ vars' = [n \in DOMAIN vars' |-> vars'[n]]
      BY Zenon, <1>2, <2>6 DEF updateVariable, VarsInv
    <3>2. ASSUME NEW n \in DOMAIN vars
          PROVE  /\ vars'[n].readOnly = vars[n].readOnly
                 /\ vars'[n] = [value |-> vars'[n].value, readOnly |-> vars'[n].readOnly]
      <4>1. vars[n] = [value |-> vars[n].value, readOnly |-> vars[n].readOnly]
        BY <1>2 DEF VarsInv
      <4>2. \/ vars'[n] = vars[n]
            \/ \E v : vars'[n] = [vars[n] EXCEPT !.value = v]
        BY Zenon, <2>6 DEF updateVariable
      <4> QED BY Zenon, <4>1, <4>2
    <3>3. VarsInv' BY <3>1, <3>2 DEF VarsInv
    <3> QED BY Zenon, <1>3, <1>4, <2>2, <2>6, <3>1, <3>2, <3>3
  <2> QED BY <2>3, <2>4, <2>5, <2>6
<1> QED BY <1>5, <1>6

\* The list of IFs, the place reached, the slots and the variables stay in order.
LEMMA ScriptInvInductive ==
  ASSUME ScriptInv, [ScriptNext]_scriptVars
  PROVE  ScriptInv'
<1>1. ScriptTypeOK /\ ListInv /\ VarsInv BY DEF ScriptInv
<1>2. \A i \in Slots : ArgumentOK(args[i]) /\ DOMAIN args = Slots
  BY <1>1 DEF ScriptTypeOK
<1>3. \A i \in Slots : ArgumentOK(Cleaned[i]) /\ DOMAIN Cleaned = Slots
  BY Zenon, <1>2 DEF Cleaned, ArgumentOK
<1>4. CASE parseFileForIFStatements
  BY <1>4, ParseOK
<1>5. CASE ParseError \/ ScriptEnds
  <2>1. endExecution("done") /\ UNCHANGED args BY <1>5 DEF ParseError, ScriptEnds
  <2>2. DOMAIN args' = Slots /\ \A i \in Slots : ArgumentOK(args'[i])
    BY <1>1, <2>1 DEF ScriptTypeOK
  <2> QED BY <2>1, <2>2, EndOK
<1>6. CASE ParseDone
  <2>1. /\ status = "parse" /\ pc = Len(script) + 1 /\ status' = "run" /\ pc' = 1
        /\ UNCHANGED <<script, ifs, ifEntry, args, vars, interruptible>>
        /\ Len(script) \in Nat /\ ifEntry = 0 /\ Len(ifs) \in Nat
    BY <1>1, <1>6, PlaceOK DEF ParseDone, ScriptTypeOK, ListInv
  <2>2. ScriptTypeOK'
    BY <1>1, <2>1 DEF ScriptTypeOK, Behind, ArgumentOK
  <2>3. ListInv' /\ VarsInv'
    BY <1>1, <2>1 DEF ListInv, ListedBelow, VarsInv
  <2> QED BY <2>2, <2>3 DEF ScriptInv
<1>7. CASE LabelLine
  <2>1. /\ status = "run" /\ status' = "run" /\ pc' \in 1..Len(script) + 1
        /\ UNCHANGED <<script, ifs, ifEntry, args, vars, interruptible>>
    <3>1. pc + 1 \in 1..Len(script) + 1 /\ Len(script) \in Nat
      BY <1>1, <1>7, PlaceOK DEF LabelLine, AtLine
    <3> QED BY <1>7, <3>1 DEF LabelLine, AtLine, GoesOn, NotFound
  <2>2. ScriptTypeOK'
    BY <1>1, <2>1 DEF ScriptTypeOK, Behind, ArgumentOK
  <2>3. ListInv' /\ VarsInv'
    BY <1>1, <2>1 DEF ListInv, ListedBelow, VarsInv
  <2> QED BY <2>2, <2>3 DEF ScriptInv
<1>8. CASE RunIf \/ RunElse \/ RunEndif
  BY <1>8, IfLinesOK
<1>9. CASE RunEndifWild \/ RunFault
  <2>1. interruptible' \in BOOLEAN BY <1>1, <1>9, MaskOK DEF RunEndifWild, RunFault, ScriptTypeOK
  <2> QED BY <1>9, <2>1, StopsOK DEF RunEndifWild, RunFault, Executes
<1>10. CASE RunGoto \/ RunCall \/ RunBoot
  <2>1. /\ AtLine /\ ReadLine /\ UNCHANGED <<ifs, ifEntry, vars>> /\ interruptible' \in BOOLEAN
    BY <1>10, MaskOK DEF RunGoto, RunCall, RunBoot, Executes
  <2>2. pc + 1 \in 1..Len(script) + 1 /\ ifEntry' \in 0..Len(ifs) /\ Len(script) \in Nat
        /\ DOMAIN script = 1..Len(script)
    BY <1>1, <2>1, PlaceOK DEF AtLine, ScriptTypeOK
  <2>3. CASE GoesOn(pc + 1)
    BY <2>1, <2>2, <2>3, PlainOK
  <2>4. CASE status' = "booted" /\ UNCHANGED <<script, pc>>
    BY <2>1, <2>4, StopsOK
  <2>5. CASE \E n \in DOMAIN script : GoesOn(n)
    BY <2>1, <2>2, <2>5, PlainOK
  <2> QED BY <1>10, <2>3, <2>4, <2>5 DEF RunGoto, RunCall, RunBoot, LabelLines
<1>11. CASE RunVar \/ \E input \in Params : RunAssignment(input)
  BY <1>11, VarLinesOK
<1>12. CASE RunEnd
  <2>1. AtLine /\ ReadLine /\ endExecution("done") BY <1>12 DEF RunEnd, Executes
  <2> QED BY <1>1, <2>1, ParsedOK, EndOK
<1>13. CASE emergencyEscape
  <2>1. endExecution("escaped") /\ args' = Cleaned BY <1>13 DEF emergencyEscape
  <2>2. DOMAIN args' = Slots /\ \A i \in Slots : ArgumentOK(args'[i])
    BY <1>3, <2>1 DEF Cleaned
  <2> QED BY <2>1, <2>2, EndOK
<1>14. CASE UNCHANGED scriptVars
  BY <1>1, <1>14 DEF scriptVars, ScriptInv, ScriptTypeOK, ListInv, ListedBelow, VarsInv,
     Behind, ArgumentOK
<1> QED BY <1>4, <1>5, <1>6, <1>7, <1>8, <1>9, <1>10, <1>11, <1>12, <1>13, <1>14 DEF ScriptNext

\* A script begins in order.
LEMMA ScriptInvInit == ScriptInit => ScriptInv
<1> SUFFICES ASSUME ScriptInit PROVE ScriptInv
  OBVIOUS
<1>1. /\ script \in Scripts /\ script \in Seq(Seq(LineArgument)) /\ status = "parse" /\ pc = 1
      /\ ifs = <<>> /\ ifEntry = 0 /\ interruptible = TRUE
  BY ScriptsAssumption DEF ScriptInit
<1>2. ifs \in Seq(IfStatement) /\ DOMAIN ifs = {} /\ Len(ifs) = 0 /\ Len(script) \in Nat
      /\ DOMAIN script = 1..Len(script)
  BY <1>1
<1>3. DOMAIN args = Slots /\ \A i \in Slots : ArgumentOK(args[i])
  BY Zenon DEF ScriptInit, NoArgument, ArgumentOK
<1>4. /\ DOMAIN vars \subseteq Names /\ \A n \in DOMAIN vars : vars[n].readOnly \in BOOLEAN
      /\ VarsInv
  <2>1. {"BNKOS", "_param0"} \subseteq Names BY ScriptsAssumption
  <2>2. CASE vars = ReadOnly
    <3>1. DOMAIN vars = {"BNKOS"} /\ vars["BNKOS"] = [value |-> BNKOS, readOnly |-> TRUE]
      BY <2>2 DEF ReadOnly
    <3>2. vars = [n \in DOMAIN vars |-> vars[n]]
      BY <2>2 DEF ReadOnly
    <3>3. \A n \in DOMAIN vars : n = "BNKOS" /\ vars[n].readOnly = TRUE
            /\ vars[n] = [value |-> vars[n].value, readOnly |-> vars[n].readOnly]
      BY <3>1
    <3> QED BY Zenon, <2>1, <3>1, <3>2, <3>3 DEF VarsInv
  <2>3. CASE \E p \in Params :
               vars = [n \in {"BNKOS", "_param0"} |->
                         IF n = "BNKOS" THEN ReadOnly[n] ELSE [value |-> p, readOnly |-> FALSE]]
    <3>1. PICK p \in Params :
            vars = [n \in {"BNKOS", "_param0"} |->
                      IF n = "BNKOS" THEN ReadOnly[n] ELSE [value |-> p, readOnly |-> FALSE]]
      BY Zenon, <2>3
    <3>2. ReadOnly["BNKOS"] = [value |-> BNKOS, readOnly |-> TRUE] BY DEF ReadOnly
    <3>3. DOMAIN vars = {"BNKOS", "_param0"} /\ vars = [n \in DOMAIN vars |-> vars[n]]
      BY <3>1
    <3>4. ASSUME NEW n \in DOMAIN vars
          PROVE  /\ vars[n].readOnly \in BOOLEAN
                 /\ vars[n] = [value |-> vars[n].value, readOnly |-> vars[n].readOnly]
      <4>1. \E v : \E b \in BOOLEAN : vars[n] = [value |-> v, readOnly |-> b]
        BY Zenon, <3>1, <3>2, <3>3
      <4> QED BY <4>1
    <3> QED BY <2>1, <3>3, <3>4 DEF VarsInv
  <2> QED BY <2>2, <2>3 DEF ScriptInit
<1>5. ScriptTypeOK BY <1>1, <1>2, <1>3, <1>4 DEF ScriptTypeOK
<1>6. ListInv BY <1>1, <1>2 DEF ListInv, ListedBelow
<1> QED BY <1>4, <1>5, <1>6 DEF ScriptInv

\* Whatever the script, runScript stays in the file, and what an entry of its list of IFs
\* records lies behind the IF.
THEOREM ScriptTypeCorrect == ScriptSpec => []ScriptTypeOK
<1>1. ScriptInv /\ [ScriptNext]_scriptVars => ScriptInv' BY ScriptInvInductive
<1>2. ScriptInv => ScriptTypeOK BY DEF ScriptInv
<1> QED BY <1>1, <1>2, ScriptInvInit, PTL DEF ScriptSpec

\* An IF never leads back: the search in the list finds the entry of that very IF, and
\* what it records lies behind it.  A script that loops for ever does so through a GOTO
\* or an ELSE.
THEOREM IfsGoForward == ScriptSpec => [][RunIf => pc' > pc]_scriptVars
<1>1. ScriptInv /\ [ScriptNext]_scriptVars => ScriptInv' BY ScriptInvInductive
<1>2. ScriptInv => [RunIf => pc' > pc]_scriptVars
  <2> SUFFICES ASSUME ScriptInv, RunIf PROVE pc' > pc
    OBVIOUS
  <2> DEFINE holds == ifFunction(args'[2].value, args'[3].value, args'[4].value)
  <2>1. PICK j \in DOMAIN ifs :
          /\ StopsAt(1, IfPlaces, pc + 1, j)
          /\ GoesOn(IF holds THEN pc + 1
                    ELSE IF ifs[j].elsePosition # NotFound THEN ifs[j].elsePosition
                                                           ELSE ifs[j].endifPosition)
    BY DEF RunIf
  <2> HIDE DEF holds
  <2>2. status = "run" /\ pc \in DOMAIN script /\ Is(script[pc], FUNCTION_IF)
    BY DEF RunIf, Executes, AtLine
  <2>3. /\ ifs \in Seq(IfStatement) /\ DOMAIN ifs = 1..Len(ifs) /\ Len(ifs) \in Nat
        /\ pc \in 1..Len(script) /\ Len(script) \in Nat
        /\ Behind(ifs[j], ifs[j].elsePosition) /\ Behind(ifs[j], ifs[j].endifPosition)
    BY <2>2, PlaceOK DEF ScriptInv, ScriptTypeOK
  <2>4. PICK k \in DOMAIN ifs : ifs[k].ifPosition = pc + 1
    BY <2>2, <2>3 DEF ScriptInv, ListInv, ListedBelow
  <2>5. ifs[j].ifPosition = pc + 1
    <3>0. \A i \in DOMAIN ifs : IfPlaces[i] = ifs[i].ifPosition BY DEF IfPlaces
    <3>1. \A i \in 1..j - 1 : ifs[i].ifPosition # pc + 1
      BY <2>1, <2>3, <3>0 DEF StopsAt
    <3>2. ~(k < j) BY <2>3, <2>4, <3>1
    <3>3. ifs[j].ifPosition = pc + 1 \/ j = Len(ifs)
      BY <2>1 DEF StopsAt, IfPlaces
    <3> QED BY <2>3, <2>4, <3>2, <3>3
  <2>6. ifs[j] \in IfStatement BY <2>3
  <2>7. /\ ifs[j].elsePosition \in Nat \cup {NotFound} /\ ifs[j].endifPosition \in Nat \cup {NotFound}
        /\ ifs[j].elsePosition # NotFound => pc + 1 < ifs[j].elsePosition
        /\ ifs[j].endifPosition # NotFound => pc + 1 < ifs[j].endifPosition
    BY Zenon, <2>3, <2>5, <2>6 DEF Behind, IfStatement
  <2>8. \/ pc' = Len(script) + 1
        \/ pc' = pc + 1
        \/ ifs[j].elsePosition # NotFound /\ pc' = ifs[j].elsePosition
        \/ ifs[j].endifPosition # NotFound /\ pc' = ifs[j].endifPosition
    BY Zenon, <2>1 DEF GoesOn
  <2>9. pc \in 1..Len(script) /\ Len(script) \in Nat BY Zenon, <2>3
  <2> QED BY ONLY <2>7, <2>8, <2>9
<1> QED BY <1>1, <1>2, ScriptInvInit, PTL DEF ScriptSpec

-----------------------------------------------------------------------------
(****************************************************************************)
(* Assignments.                                                             *)

\* The accumulator before the first argument is scanned.
NothingYet == [value |-> 0, inUse |-> FALSE, op |-> -1, fault |-> FALSE]

\* runScript scans the arguments from the fifth to the second.
LEMMA AccumulatorScans ==
  ASSUME NEW list, NEW input
  PROVE  \E s5, s4, s3 :
           /\ s5 = Scanned(list, 5, NothingYet, input) /\ s4 = Scanned(list, 4, s5, input)
           /\ s3 = Scanned(list, 3, s4, input)
           /\ Accumulator(list, input) = Scanned(list, 2, s3, input)
<1> DEFINE S(i, acc) == Scanned(list, i, acc, input)
           s5 == S(5, NothingYet)
           s4 == S(4, s5)
           s3 == S(3, s4)
           f == [i \in 2..6 |-> IF i = 6 THEN NothingYet ELSE IF i = 5 THEN s5 ELSE
                                IF i = 4 THEN s4 ELSE IF i = 3 THEN s3 ELSE S(2, s3)]
           Body(g) == [i \in 2..6 |-> IF i = 6 THEN NothingYet ELSE S(i, g[i + 1])]
           scan == CHOOSE g : g = Body(g)
<1>1. Accumulator(list, input) = scan[2]
  BY DEF Accumulator, NothingYet
<1> HIDE DEF S
<1>2. f = Body(f)
  <2>1. f[6] = NothingYet /\ f[5] = s5 /\ f[4] = s4 /\ f[3] = s3 /\ f[2] = S(2, s3)
    OBVIOUS
  <2> HIDE DEF f
  <2>2. \A i \in 2..6 : f[i] = IF i = 6 THEN NothingYet ELSE S(i, f[i + 1])
    BY <2>1
  <2>3. QED
    BY <2>2 DEF f
<1>3. scan = Body(scan)
  BY <1>2
<1> HIDE DEF scan, f
<1>4. scan[6] = NothingYet /\ \A i \in 2..5 : scan[i] = S(i, scan[i + 1])
  BY <1>3
<1>5. scan[5] = s5 /\ scan[4] = s4 /\ scan[3] = s3 /\ scan[2] = S(2, s3)
  BY <1>4
<1>6. QED
  BY <1>1, <1>5 DEF S

\* The accumulator of "a op b" holds the result, or the fault.
LEMMA OperationComputed ==
  ASSUME NEW list, NEW input, NEW code \in OPTYPE_PLUS..OPTYPE_SHIFTDOWN,
         \A i \in 2..5 : list[i].exist = TRUE,
         list[2].type = "OPERATOR", list[4].type = "OPERATOR", list[4].value = code,
         \A i \in {3, 5} : list[i].type \in {"VARIABLE", "NUMERIC"},
         code \in {OPTYPE_MINUS, OPTYPE_DIVIDE} => list[3].type = "VARIABLE",
         ~Accumulator(list, input).fault
  PROVE  /\ Accumulator(list, input).inUse
         /\ Accumulator(list, input).value = Operate(code, list[3].value, list[5].value)
<1>1. PICK s5, s4, s3 :
           /\ s5 = Scanned(list, 5, NothingYet, input) /\ s4 = Scanned(list, 4, s5, input)
           /\ s3 = Scanned(list, 3, s4, input)
           /\ Accumulator(list, input) = Scanned(list, 2, s3, input)
  BY AccumulatorScans
<1>a. /\ list[2].exist = TRUE /\ list[3].exist = TRUE /\ list[4].exist = TRUE /\ list[5].exist = TRUE
      /\ list[3].type \in {"VARIABLE", "NUMERIC"} /\ list[5].type \in {"VARIABLE", "NUMERIC"}
  OBVIOUS
<1>2. s5 = [value |-> list[5].value, inUse |-> TRUE, op |-> -1, fault |-> FALSE]
  <2>1. s5 = Combine(list[5], NothingYet)
    BY Zenon, <1>1, <1>a DEF Scanned
  <2>2. QED
    BY Zenon, <2>1 DEF Combine, NothingYet
<1>3. s4 = [value |-> list[5].value, inUse |-> TRUE, op |-> code, fault |-> FALSE]
  <2>1. s4 = [s5 EXCEPT !.op = list[4].value]
    BY Zenon, <1>1, <1>a DEF Scanned
  <2>2. QED
    BY Zenon, <1>2, <2>1
<1>4. s3 = Combine(list[3], s4)
  BY Zenon, <1>1, <1>a DEF Scanned
<1>5. s3 = IF Faults(code, list[3].value, list[5].value) THEN [s4 EXCEPT !.fault = TRUE]
             ELSE [s4 EXCEPT !.value = Operate(code, list[3].value, list[5].value)]
  BY Zenon, <1>3, <1>4 DEF Combine
<1>6. Accumulator(list, input) = [s3 EXCEPT !.op = list[2].value]
  BY Zenon, <1>1, <1>a DEF Scanned
<1>7. QED
  BY <1>3, <1>5, <1>6

\* A line that does not begin with a function or a label changes the variables only as
\* an assignment.
LEMMA AssignmentLine ==
  ASSUME ScriptInv, ScriptNext, AtLine, script[pc][1].kind = "name", status' = "run"
  PROVE  \E input \in Params : RunAssignment(input)
<1>1. \A f : ~Is(script[pc], f)
  BY DEF Is, Fn
<1>2. ~IsLabel(script[pc]) /\ script[pc][1].kind # "function" /\ status = "run" /\ pc \in DOMAIN script
  BY DEF IsLabel, AtLine
<1>3. QED
  BY Zenon, <1>1, <1>2 DEF ScriptNext, parseFileForIFStatements, ParseError, ParseDone, LabelLine, RunIf,
     RunElse, RunEndif, RunEndifWild, RunGoto, RunVar, RunCall, RunBoot, RunFault, RunEnd, ScriptEnds,
     emergencyEscape, Executes, endExecution

\* After x = a op b, x is a op b, whatever the values, in words of any width: reading the
\* line from its end and telling the operands apart by their type comes to the same, but
\* for a number minus or divided by something.
THEOREM AssignmentsCompute == ScriptSpec => AssignmentComputes
<1> DEFINE line == script[pc]
           x == line[1].name
           code == line[4].code
           given == /\ status = "run" /\ status' = "run" /\ pc \in DOMAIN script
                    /\ Len(line) = 5 /\ line[1].kind = "name" /\ x \in DOMAIN vars
                    /\ line[2] = Op(OPTYPE_EQ)
                    /\ line[4].kind = "operator" /\ code \in OPTYPE_PLUS..OPTYPE_SHIFTDOWN
                    /\ \A i \in {3, 5} : args'[i].type \in {"VARIABLE", "NUMERIC"}
                    /\ code \in {OPTYPE_MINUS, OPTYPE_DIVIDE} => args'[3].type = "VARIABLE"
           result == IF vars[x].readOnly THEN vars[x].value
                       ELSE Operate(code, args'[3].value, args'[5].value)
<1>1. ASSUME ScriptInv, ScriptNext, given
      PROVE  vars'[x].value = result
  <2>1. AtLine
    BY <1>1 DEF AtLine
  <2>2. PICK input \in Params : RunAssignment(input)
    BY Zenon, <1>1, <2>1, AssignmentLine
  <2>3. /\ args' = Parsed(line) /\ ~Accumulator(args', input).fault
        /\ vars' = IF args'[1].type = "VARIABLE" /\ Accumulator(args', input).inUse
                      /\ args'[2].type = "OPERATOR" /\ args'[2].value = OPTYPE_EQ
                     THEN updateVariable(args'[1].text, Accumulator(args', input).value) ELSE vars
    BY <1>1, <2>2 DEF RunAssignment, ReadLine
  <2>4. \A i \in Slots : args'[i] = decodeArgument(line[i], args[i].value)
    BY <1>1, <2>3 DEF Parsed, Slots
  <2>5. /\ args'[1].type = "VARIABLE" /\ args'[1].text = x
        /\ args'[2].type = "OPERATOR" /\ args'[2].value = OPTYPE_EQ
        /\ args'[4].type = "OPERATOR" /\ args'[4].value = code
    BY <1>1, <2>4 DEF decodeArgument, Op, Slots
  <2>6. \A i \in 2..5 : args'[i].exist = TRUE
    <3>1. 2..5 \subseteq Slots BY DEF Slots
    <3> QED BY Zenon, <2>4, <3>1, DecodedExists
  <2>10. /\ code \in OPTYPE_PLUS..OPTYPE_SHIFTDOWN
         /\ \A i \in {3, 5} : args'[i].type \in {"VARIABLE", "NUMERIC"}
         /\ code \in {OPTYPE_MINUS, OPTYPE_DIVIDE} => args'[3].type = "VARIABLE"
         /\ args'[2].type = "OPERATOR" /\ args'[4].type = "OPERATOR" /\ args'[4].value = code
         /\ ~Accumulator(args', input).fault
    BY Zenon, <1>1, <2>3, <2>5
  <2> HIDE DEF code
  <2>7. /\ Accumulator(args', input).inUse
        /\ Accumulator(args', input).value = Operate(code, args'[3].value, args'[5].value)
    BY ONLY Zenon, <2>6, <2>10, OperationComputed
  <2> USE DEF code
  <2>8. vars' = updateVariable(x, Operate(code, args'[3].value, args'[5].value))
    BY Zenon, <2>3, <2>5, <2>7
  <2>9. QED
    BY <1>1, <2>8 DEF updateVariable, ScriptInv, VarsInv
<1>2. ScriptInv /\ [ScriptNext]_scriptVars => [given => vars'[x].value = result]_scriptVars
  BY Zenon, <1>1
<1>3. ScriptInv /\ [ScriptNext]_scriptVars => ScriptInv'
  BY ScriptInvInductive
<1> QED BY <1>2, <1>3, ScriptInvInit, PTL DEF ScriptSpec, AssignmentComputes

-----------------------------------------------------------------------------
(****************************************************************************)
(* Texts.  What is said of counts is assumed here, and in the next section, *)
(* and proved at the end: the library's theorems would weigh upon every     *)
(* step.                                                                    *)

\* A slot list has finitely many texts.
TextsCounted == Cardinality({}) = 0 /\ \A list : Cardinality(Texts(list)) \in Nat

\* Cleaning up leaves no text.
LEMMA CleanedHasNone == TextsCounted => Cardinality(Texts(Cleaned)) = 0
<1>1. Texts(Cleaned) = {} BY DEF Texts, Cleaned
<1> QED BY Zenon, <1>1 DEF TextsCounted

\* A decoded argument of type STRING has a text.
LEMMA DecodedText ==
  ASSUME NEW a \in LineArgument, NEW value,
         a.kind \in {"name", "text", "label"} => a.name # NULL,
         decodeArgument(a, value).type = "STRING"
  PROVE  decodeArgument(a, value).text # NULL
<1>1. a.kind \in {"function", "operator", "number", "name", "text", "label"}
  BY DEF LineArgument
<1>2. CASE a.kind = "function"
  BY <1>2 DEF decodeArgument
<1>3. CASE a.kind = "operator"
  BY <1>3 DEF decodeArgument
<1>4. CASE a.kind = "number"
  BY <1>4 DEF decodeArgument
<1>5. CASE a.kind = "name" /\ a.name \in DOMAIN vars
  BY <1>5 DEF decodeArgument
<1>6. CASE a.kind \in {"name", "text", "label"} /\ ~(a.kind = "name" /\ a.name \in DOMAIN vars)
  BY <1>6 DEF decodeArgument
<1> QED BY <1>1, <1>2, <1>3, <1>4, <1>5, <1>6

\* What a line frees is what is held, and what it allocates is what its slots hold.
LEMMA ReadLineAccounts ==
  ASSUME TextsCounted, ScriptTypeOK, AtLine, held = Cardinality(Texts(args)), ReadLine
  PROVE  held' = Cardinality(Texts(args'))
<1>1. args' = Parsed(script[pc])
      /\ held' = held - Cardinality(Texts(args)) + Cardinality(Allocated(script[pc]))
  BY DEF ReadLine
<1>2. ASSUME NEW i \in Slots, i <= Len(script[pc]), Parsed(script[pc])[i].type = "STRING"
      PROVE  Parsed(script[pc])[i].text # NULL
  <2>1. /\ script[pc][i] \in LineArgument
        /\ script[pc][i].kind \in {"name", "text", "label"} => script[pc][i].name # NULL
    BY <1>2, LineOK DEF Slots
  <2>2. Parsed(script[pc])[i] = decodeArgument(script[pc][i], args[i].value)
    BY <1>2 DEF Parsed
  <2> QED BY <1>2, <2>1, <2>2, DecodedText
<1>3. ASSUME NEW i \in Slots, ~(i <= Len(script[pc])), Parsed(script[pc])[i].type = "STRING"
      PROVE  Parsed(script[pc])[i].text = NULL
  BY <1>3 DEF Parsed, Cleaned
<1>4. Texts(args') = Allocated(script[pc])
  BY <1>1, <1>2, <1>3 DEF Texts, Allocated
<1>5. Cardinality(Texts(args)) \in Nat /\ Cardinality(Texts(args')) \in Nat
  BY Zenon DEF TextsCounted
<1> QED BY <1>1, <1>4, <1>5

\* No line loses a text.
LEMMA TextsStep ==
  ASSUME TextsCounted, ScriptInv, TextsAccounted, [ScriptNext]_scriptVars
  PROVE  TextsAccounted'
<1>0. held = Cardinality(Texts(args)) BY DEF TextsAccounted
<1>1. ASSUME AtLine, ReadLine, status' # "escaped" PROVE TextsAccounted'
  <2>1. held' = Cardinality(Texts(args')) BY <1>0, <1>1, ReadLineAccounts DEF ScriptInv
  <2> QED BY <2>1, <1>1 DEF TextsAccounted, Texts
<1>2. ASSUME UNCHANGED <<args, held>>, status' # "escaped" \/ status' = status
      PROVE  TextsAccounted'
  BY <1>2 DEF TextsAccounted, Texts
<1>3. CASE emergencyEscape
  <2>1. args' = Cleaned /\ held' = held - Cardinality(Texts(args))
    BY <1>3 DEF emergencyEscape
  <2>2. held' = 0 BY <1>0, <2>1 DEF TextsCounted
  <2>3. Cardinality(Texts(args')) = 0 BY <2>1, CleanedHasNone
  <2> QED BY <2>2, <2>3 DEF TextsAccounted, Texts
<1>4. CASE parseFileForIFStatements \/ ParseError \/ ParseDone \/ LabelLine \/ ScriptEnds
  BY <1>2, <1>4 DEF parseFileForIFStatements, ParseError, ParseDone, LabelLine, ScriptEnds,
     endExecution, GoesOn
<1>5. CASE RunIf \/ RunElse \/ RunEndif \/ RunEndifWild \/ RunGoto \/ RunVar \/ RunCall
  BY <1>1, <1>5 DEF RunIf, RunElse, RunEndif, RunEndifWild, RunGoto, RunVar, RunCall,
     Executes, AtLine, GoesOn
<1>6. CASE RunBoot \/ RunFault \/ RunEnd
  BY <1>1, <1>6 DEF RunBoot, RunFault, RunEnd, Executes, AtLine, GoesOn, endExecution
<1>7. CASE \E input \in Params : RunAssignment(input)
  BY <1>1, <1>7 DEF RunAssignment, AtLine, GoesOn
<1>8. CASE UNCHANGED scriptVars
  BY <1>2, <1>8 DEF scriptVars
<1> QED BY <1>3, <1>4, <1>5, <1>6, <1>7, <1>8 DEF ScriptNext

-----------------------------------------------------------------------------
(****************************************************************************)
(* Nesting.                                                                 *)

\* How many IFs are open behind line n.
Depth(n) == Count(FUNCTION_IF, 1, n) - Count(FUNCTION_ENDIF, 1, n)

\* Line m closes the IF in line n.
ClosedAt(n, m) ==
  /\ m \in DOMAIN script /\ n < m /\ Is(script[m], FUNCTION_ENDIF)
  /\ Depth(m) = Depth(n - 1)
  /\ \A k \in n..m - 1 : Depth(k) > Depth(n - 1)

\* The line of the IF that an entry is about.
IfLine(e) == e.ifPosition - 1

\* What an entry of the list records is so in the text.
Genuine(e) ==
  /\ IfLine(e) \in IfLines
  /\ e.endifPosition # NotFound => ClosedAt(IfLine(e), e.endifPosition - 1)
  /\ e.elsePosition # NotFound => e.elsePosition - 1 \in ElsesOf(IfLine(e))

\* The entries are in the order of their IFs, and no two have the same ELSE.
ListShape(list) ==
  /\ \A j \in DOMAIN list : Genuine(list[j])
  /\ \A i, j \in DOMAIN list : i < j => IfLine(list[i]) < IfLine(list[j])
  /\ \A i, j \in DOMAIN list :
       list[i].elsePosition = list[j].elsePosition /\ list[i].elsePosition # NotFound => i = j

\* Up to line n every ENDIF, and every ELSE of an IF in the list, is recorded.
Recorded(list, n) ==
  /\ \A m \in DOMAIN script : m <= n /\ Is(script[m], FUNCTION_ENDIF)
       => \E j \in DOMAIN list : list[j].endifPosition = m + 1
  /\ \A j \in DOMAIN list : list[j].elsePosition = NotFound
       => \A m \in ElsesOf(IfLine(list[j])) : m > n

\* Once the pass has read line n, the entries without an ENDIF are the IFs that are open
\* there, one of each depth.
Opened(list, n) ==
  /\ Depth(n) >= 0
  /\ \A j \in DOMAIN list :
       /\ IfLine(list[j]) <= n /\ list[j].elsePosition <= n + 1 /\ list[j].endifPosition <= n + 1
       /\ Depth(IfLine(list[j]) - 1) >= 0
       /\ list[j].endifPosition = NotFound =>
            \A k \in IfLine(list[j])..n : Depth(k) > Depth(IfLine(list[j]) - 1)
  /\ \A d \in 0..Depth(n) - 1 : \E j \in DOMAIN list :
       list[j].endifPosition = NotFound /\ Depth(IfLine(list[j]) - 1) = d

\* What the pass has made of the lines up to n.
PassOK(list, n) == ListShape(list) /\ Recorded(list, n) /\ Opened(list, n)

\* In the run, at line n: before its ELSE, an IF that n is in has its flag set; as long as
\* no entry was used, n is in no IF.
RunShape(list, n, entry) ==
  \A j \in DOMAIN list :
    /\ list[j].endifPosition # NotFound
    /\ IfLine(list[j]) < n /\ n < list[j].elsePosition => list[j].validAssertion
    /\ entry = 0 => n <= IfLine(list[j]) \/ n >= list[j].endifPosition

\* What the list knows of a well-nested text, in the pass and in the run.
NestInv ==
  WellNested =>
    /\ status = "parse" => PassOK(ifs, pc - 1)
    /\ status = "run" =>
         ListShape(ifs) /\ Recorded(ifs, Len(script)) /\ RunShape(ifs, pc, ifEntry)

\* What counting says of the text of a script.
Counted ==
  /\ Depth(0) = 0
  /\ \A n \in 0..Len(script) : Depth(n) \in Int
  /\ \A n \in DOMAIN script :
       /\ Is(script[n], FUNCTION_IF) => Depth(n) = Depth(n - 1) + 1
       /\ Is(script[n], FUNCTION_ENDIF) => Depth(n) = Depth(n - 1) - 1
       /\ ~Is(script[n], FUNCTION_IF) /\ ~Is(script[n], FUNCTION_ENDIF) => Depth(n) = Depth(n - 1)
  /\ \A a, b \in Nat : 1 <= a /\ a <= b + 1 => (Level(a, b) <=> Depth(b) = Depth(a - 1))
  /\ \A n \in DOMAIN script : EndifOf(n) \in 0..Len(script)
  /\ Balanced => \A n \in IfLines : \A a, b \in ElsesOf(n) : a = b

\* An IF, an ELSE, an ENDIF and a GOTO are four lines.
LEMMA LinesApart ==
  ASSUME NEW line, NEW f \in Int, NEW g \in Int, Is(line, f), Is(line, g)
  PROVE  f = g
BY DEF Is, Fn

\* The depth rises at an IF, falls at an ENDIF and stays at the other lines.
LEMMA DepthSteps ==
  ASSUME Counted
  PROVE  /\ Depth(0) = 0
         /\ \A n \in 0..Len(script) : Depth(n) \in Int
         /\ \A n \in DOMAIN script :
              /\ Is(script[n], FUNCTION_IF) => Depth(n) = Depth(n - 1) + 1
              /\ Is(script[n], FUNCTION_ENDIF) => Depth(n) = Depth(n - 1) - 1
              /\ ~Is(script[n], FUNCTION_IF) /\ ~Is(script[n], FUNCTION_ENDIF)
                   => Depth(n) = Depth(n - 1)
BY Zenon DEF Counted

\* Lines close what they open when they end at the depth at which they begin.
LEMMA LevelIs ==
  ASSUME Counted, NEW a \in Nat, NEW b \in Nat, 1 <= a, a <= b + 1
  PROVE  Level(a, b) <=> Depth(b) = Depth(a - 1)
BY Zenon DEF Counted

\* What Min picks.
LEMMA MinIs ==
  ASSUME NEW S, S \subseteq Int, NEW m \in S, \A k \in S : m <= k
  PROVE  Min(S) = m
<1>1. Min(S) \in S /\ \A k \in S : Min(S) <= k BY Zenon DEF Min
<1>2. Min(S) \in Int /\ m \in Int /\ Min(S) <= m /\ m <= Min(S) BY Zenon, <1>1
<1> QED BY <1>2

\* The line that closes an IF is its ENDIF.
LEMMA EndifIs ==
  ASSUME script \in Seq(Seq(LineArgument)), Counted, NEW n \in DOMAIN script, NEW m, ClosedAt(n, m)
  PROVE  EndifOf(n) = m
<1> DEFINE ends == {k \in n..Len(script) : Level(n, k)}
<1>1. /\ Len(script) \in Nat /\ DOMAIN script = 1..Len(script) /\ n \in 1..Len(script)
      /\ m \in n..Len(script) /\ Depth(m) = Depth(n - 1)
      /\ \A k \in n..m - 1 : Depth(k) > Depth(n - 1)
  BY DEF ClosedAt
<1>2. \A k \in n..Len(script) : Level(n, k) <=> Depth(k) = Depth(n - 1)
  BY <1>1, LevelIs
<1>3. \A k \in 0..Len(script) : Depth(k) \in Int BY DepthSteps
<1>4. m \in ends /\ ends \subseteq Int
  BY <1>1, <1>2
<1>5. \A k \in ends : m <= k
  <2> SUFFICES ASSUME NEW k \in ends, k < m PROVE FALSE
    BY <1>1
  <2>1. Depth(k) = Depth(n - 1) BY <1>2
  <2>2. Depth(k) > Depth(n - 1) /\ Depth(k) \in Int BY <1>1, <1>3
  <2> QED BY <2>1, <2>2
<1>6. EndifOf(n) = Min(ends) BY <1>4 DEF EndifOf
<1> HIDE DEF ends
<1> QED BY Zenon, <1>4, <1>5, <1>6, MinIs

\* The ENDIF of a line is none or a line behind it.
LEMMA EndifRange ==
  ASSUME Counted, NEW n \in DOMAIN script
  PROVE  EndifOf(n) \in 0..Len(script)
BY Zenon DEF Counted

\* What the ELSE of an IF is.
LEMMA ElseFacts ==
  ASSUME script \in Seq(Seq(LineArgument)), Counted, NEW n \in IfLines, NEW e \in ElsesOf(n)
  PROVE  /\ e \in DOMAIN script /\ n < e /\ e <= EndifOf(n) /\ Is(script[e], FUNCTION_ELSE)
         /\ Depth(e - 1) = Depth(n) /\ Depth(e) = Depth(n)
<1>1. /\ n \in DOMAIN script /\ DOMAIN script = 1..Len(script) /\ Len(script) \in Nat
      /\ Is(script[n], FUNCTION_IF)
  BY DEF IfLines
<1>2. EndifOf(n) \in 0..Len(script) BY <1>1, EndifRange
<1>3. e \in n..EndifOf(n) /\ Is(script[e], FUNCTION_ELSE) /\ Level(n + 1, e - 1)
  BY DEF ElsesOf
<1>4. /\ FUNCTION_ELSE # FUNCTION_IF /\ FUNCTION_ELSE # FUNCTION_ENDIF
      /\ FUNCTION_ELSE \in Int /\ FUNCTION_IF \in Int /\ FUNCTION_ENDIF \in Int
  BY DEF FUNCTION_IF, FUNCTION_ELSE, FUNCTION_ENDIF
<1>5. n # e /\ ~Is(script[e], FUNCTION_IF) /\ ~Is(script[e], FUNCTION_ENDIF)
  BY Zenon, <1>1, <1>3, <1>4, LinesApart
<1>6. /\ e \in DOMAIN script /\ n < e /\ e <= EndifOf(n)
      /\ n + 1 \in Nat /\ e - 1 \in Nat /\ 1 <= n + 1 /\ n + 1 <= (e - 1) + 1 /\ (n + 1) - 1 = n
  BY ONLY <1>1, <1>2, <1>3, <1>5
<1>7. Depth(e - 1) = Depth((n + 1) - 1) BY Zenon, <1>3, <1>6, LevelIs
<1>8. Depth(e) = Depth(e - 1) BY Zenon, <1>5, <1>6, DepthSteps
<1> QED BY Zenon, <1>3, <1>6, <1>7, <1>8

\* An IF of a balanced script has at most one ELSE.
LEMMA ElsesOnce ==
  ASSUME Counted, Balanced, NEW n \in IfLines,
         NEW a \in ElsesOf(n), NEW b \in ElsesOf(n)
  PROVE  a = b
BY Zenon DEF Counted

\* What the counting of lines and of numbers obeys.
CountLaws ==
  /\ \A f : \A a, b \in Int : Count(f, a, b) \in Nat
  /\ \A f : Count(f, 1, 0) = 0
  /\ \A f : \A a, b, c \in Int : a <= b + 1 /\ b <= c
       => Count(f, a, c) = Count(f, a, b) + Count(f, b + 1, c)
  /\ \A f : \A n \in Int : Count(f, n, n) = IF Is(script[n], f) THEN 1 ELSE 0
  /\ \A S : S \subseteq Nat /\ S # {} => \E x \in S : \A y \in S : x <= y
  /\ \A S : \A a, b \in Int : S \subseteq a..b /\ Cardinality(S) <= 1
       => \A x, y \in S : x = y

\* The count of some lines and of those that follow.
LEMMA CountsAdd ==
  ASSUME CountLaws, NEW f, NEW a \in Int, NEW b \in Int, NEW c \in Int, a <= b + 1, b <= c
  PROVE  Count(f, a, c) = Count(f, a, b) + Count(f, b + 1, c)
<1>1. \A g : \A x, y, z \in Int : x <= y + 1 /\ y <= z
        => Count(g, x, z) = Count(g, x, y) + Count(g, y + 1, z)
  BY Zenon DEF CountLaws
<1> QED BY ONLY <1>1, a \in Int, b \in Int, c \in Int, a <= b + 1, b <= c

\* The depth rises at an IF, falls at an ENDIF and stays at the other lines.
LEMMA DepthCounts ==
  ASSUME CountLaws, script \in Seq(Seq(LineArgument))
  PROVE  /\ Depth(0) = 0
         /\ \A n \in 0..Len(script) : Depth(n) \in Int
         /\ \A n \in DOMAIN script :
              /\ Is(script[n], FUNCTION_IF) => Depth(n) = Depth(n - 1) + 1
              /\ Is(script[n], FUNCTION_ENDIF) => Depth(n) = Depth(n - 1) - 1
              /\ ~Is(script[n], FUNCTION_IF) /\ ~Is(script[n], FUNCTION_ENDIF)
                   => Depth(n) = Depth(n - 1)
<1>0. Len(script) \in Nat /\ DOMAIN script = 1..Len(script) OBVIOUS
<1>1. \A f : \A n \in Int : Count(f, 1, n) \in Nat
  <2>1. 1 \in Int OBVIOUS
  <2> QED BY Zenon, <2>1 DEF CountLaws
<1>2. \A f : Count(f, 1, 0) = 0 BY Zenon DEF CountLaws
<1>3. ASSUME NEW f, NEW n \in DOMAIN script
      PROVE  Count(f, 1, n) = Count(f, 1, n - 1) + IF Is(script[n], f) THEN 1 ELSE 0
  <2>1. n \in Int /\ n - 1 \in Int /\ 1 <= (n - 1) + 1 /\ n - 1 <= n /\ (n - 1) + 1 = n
    BY <1>0
  <2>2. Count(f, 1, n) = Count(f, 1, n - 1) + Count(f, (n - 1) + 1, n)
    BY ONLY <2>1, CountLaws, CountsAdd
  <2>3. Count(f, n, n) = IF Is(script[n], f) THEN 1 ELSE 0
    BY Zenon, <2>1 DEF CountLaws
  <2> QED BY Zenon, <2>1, <2>2, <2>3
<1>4. FUNCTION_IF # FUNCTION_ENDIF /\ FUNCTION_IF \in Int /\ FUNCTION_ENDIF \in Int
  BY DEF FUNCTION_IF, FUNCTION_ENDIF
<1>5. \A n \in DOMAIN script : ~(Is(script[n], FUNCTION_IF) /\ Is(script[n], FUNCTION_ENDIF))
  BY Zenon, <1>4, LinesApart
<1>6. \A n \in DOMAIN script : n \in Int /\ n - 1 \in Int BY <1>0
<1>7. Depth(0) = 0 BY <1>2 DEF Depth
<1>8. \A n \in 0..Len(script) : Depth(n) \in Int BY <1>0, <1>1 DEF Depth
<1>9. ASSUME NEW n \in DOMAIN script
      PROVE  Depth(n) = (Depth(n - 1) + IF Is(script[n], FUNCTION_IF) THEN 1 ELSE 0)
                          - IF Is(script[n], FUNCTION_ENDIF) THEN 1 ELSE 0
  <2>1. \A f : Count(f, 1, n) = Count(f, 1, n - 1) + (IF Is(script[n], f) THEN 1 ELSE 0)
              /\ Count(f, 1, n - 1) \in Nat
    BY Zenon, <1>1, <1>3, <1>6
  <2> QED BY ONLY <2>1 DEF Depth
<1>10. \A n \in DOMAIN script : Depth(n - 1) \in Int
  <2>1. \A n \in 1..Len(script) : n - 1 \in 0..Len(script) BY ONLY <1>0
  <2> QED BY Zenon, <1>0, <1>8, <2>1
<1>11. ASSUME NEW n \in DOMAIN script
       PROVE  /\ Is(script[n], FUNCTION_IF) => Depth(n) = Depth(n - 1) + 1
              /\ Is(script[n], FUNCTION_ENDIF) => Depth(n) = Depth(n - 1) - 1
              /\ ~Is(script[n], FUNCTION_IF) /\ ~Is(script[n], FUNCTION_ENDIF)
                   => Depth(n) = Depth(n - 1)
  <2>1. /\ Depth(n - 1) \in Int /\ ~(Is(script[n], FUNCTION_IF) /\ Is(script[n], FUNCTION_ENDIF))
        /\ Depth(n) = (Depth(n - 1) + IF Is(script[n], FUNCTION_IF) THEN 1 ELSE 0)
                         - IF Is(script[n], FUNCTION_ENDIF) THEN 1 ELSE 0
    BY Zenon, <1>5, <1>9, <1>10
  <2> QED BY ONLY <2>1
<1> QED BY Zenon, <1>7, <1>8, <1>11

\* Lines close what they open when they end at the depth at which they begin.
LEMMA LevelCounts ==
  ASSUME CountLaws, NEW a \in Nat, NEW b \in Nat, 1 <= a, a <= b + 1
  PROVE  Level(a, b) <=> Depth(b) = Depth(a - 1)
<1>1. \A f : Count(f, 1, a - 1) \in Nat /\ Count(f, 1, b) \in Nat /\ Count(f, a, b) \in Nat
  <2>1. 1 \in Int /\ a - 1 \in Int /\ a \in Int /\ b \in Int OBVIOUS
  <2> QED BY Zenon, <2>1 DEF CountLaws
<1>2. \A f : Count(f, 1, b) = Count(f, 1, a - 1) + Count(f, a, b)
  <2> TAKE f
  <2>1. a - 1 \in Int /\ 1 <= (a - 1) + 1 /\ a - 1 <= b /\ (a - 1) + 1 = a /\ b \in Int /\ 1 \in Int
    OBVIOUS
  <2>2. Count(f, 1, b) = Count(f, 1, a - 1) + Count(f, (a - 1) + 1, b)
    BY ONLY <2>1, CountLaws, CountsAdd
  <2> QED BY Zenon, <2>1, <2>2
<1> QED BY <1>1, <1>2 DEF Level, Depth

\* The ENDIF of a line is none or a line behind it.
LEMMA EndifExists ==
  ASSUME CountLaws, script \in Seq(Seq(LineArgument)), NEW n \in DOMAIN script
  PROVE  EndifOf(n) \in 0..Len(script)
<1> DEFINE ends == {k \in n..Len(script) : Level(n, k)}
<1>1. Len(script) \in Nat /\ n \in 1..Len(script) OBVIOUS
<1>2. ends \subseteq 1..Len(script) /\ ends \subseteq Nat /\ ends \subseteq Int BY <1>1
<1>3. EndifOf(n) = IF ends = {} THEN 0 ELSE Min(ends) BY Zenon DEF EndifOf
<1> HIDE DEF ends
<1>4. ASSUME ends # {} PROVE Min(ends) \in ends
  <2>1. PICK m \in ends : \A k \in ends : m <= k BY Zenon, <1>2, <1>4 DEF CountLaws
  <2> QED BY Zenon, <1>2, <2>1, MinIs
<1>5. CASE ends = {} BY <1>1, <1>3, <1>5
<1>6. CASE ends # {}
  <2>1. EndifOf(n) \in 1..Len(script) BY Zenon, <1>2, <1>3, <1>4, <1>6
  <2> QED BY <1>1, <2>1
<1> QED BY <1>5, <1>6

\* An IF of a balanced script has at most one ELSE.
LEMMA ElsesCount ==
  ASSUME CountLaws, script \in Seq(Seq(LineArgument)), Balanced, NEW n \in IfLines,
         NEW a \in ElsesOf(n), NEW b \in ElsesOf(n)
  PROVE  a = b
<1>1. n \in DOMAIN script /\ n \in Int BY DEF IfLines
<1>2. EndifOf(n) \in Int
  <2>1. EndifOf(n) \in 0..Len(script) BY Zenon, <1>1, EndifExists
  <2> QED BY ONLY <2>1
<1>3. ElsesOf(n) \subseteq n..EndifOf(n) BY Zenon DEF ElsesOf
<1>4. Cardinality(ElsesOf(n)) <= 1 BY Zenon DEF Balanced
<1> QED BY Zenon, <1>1, <1>2, <1>3, <1>4 DEF CountLaws

\* All this follows from the laws of counting.
LEMMA CountsHold == CountLaws /\ ScriptTypeOK => Counted
<1> SUFFICES ASSUME CountLaws, ScriptTypeOK PROVE Counted
  OBVIOUS
<1>1. script \in Seq(Seq(LineArgument)) BY Zenon, ScriptsAssumption DEF ScriptTypeOK
<1>2. \A n \in DOMAIN script : EndifOf(n) \in 0..Len(script) BY Zenon, <1>1, EndifExists
<1>3. Balanced => \A n \in IfLines : \A a, b \in ElsesOf(n) : a = b BY Zenon, <1>1, ElsesCount
<1>4. \A a, b \in Nat : 1 <= a /\ a <= b + 1 => (Level(a, b) <=> Depth(b) = Depth(a - 1))
  BY Zenon, LevelCounts
<1> QED BY Zenon, <1>1, <1>2, <1>3, <1>4, DepthCounts DEF Counted

\* All this is about the text, which no step changes.
LEMMA TextFixed ==
  ASSUME script' = script
  PROVE  /\ IfLines' = IfLines
         /\ \A n : Depth(n)' = Depth(n)
         /\ \A n, m : ClosedAt(n, m)' <=> ClosedAt(n, m)
         /\ \A n : ElsesOf(n)' = ElsesOf(n)
         /\ WellNested' <=> WellNested
<1>1. IfLines' = IfLines BY Zenon DEF IfLines
<1>2. \A f, a, b : Count(f, a, b)' = Count(f, a, b) BY Zenon DEF Count
<1>3. \A a, b : Level(a, b)' <=> Level(a, b) BY Zenon, <1>2 DEF Level
<1>4. \A n : Depth(n)' = Depth(n) BY Zenon, <1>2 DEF Depth
<1>5. \A n, m : ClosedAt(n, m)' <=> ClosedAt(n, m) BY Zenon, <1>4 DEF ClosedAt
<1>6. \A n : EndifOf(n)' = EndifOf(n) BY Zenon, <1>3 DEF EndifOf
<1>7. \A n : ElsesOf(n)' = ElsesOf(n) BY Zenon, <1>3, <1>6 DEF ElsesOf
<1>8. \A n, m : Branch(n, m)' = Branch(n, m) BY Zenon, <1>6, <1>7 DEF Branch
<1>9. \A g : Targets(g)' = Targets(g) BY Zenon DEF Targets, LabelLines
<1>10. Balanced' <=> Balanced BY Zenon, <1>1, <1>3, <1>6, <1>7 DEF Balanced
<1>11. NoJumpIntoIf' <=> NoJumpIntoIf BY Zenon, <1>1, <1>8, <1>9 DEF NoJumpIntoIf
<1>12. InnerElses' <=> InnerElses BY Zenon, <1>1, <1>7 DEF InnerElses
<1> QED BY Zenon, <1>1, <1>4, <1>5, <1>7, <1>10, <1>11, <1>12 DEF WellNested

\* The shapes are about the text and the list alone.
LEMMA ShapesFixed ==
  ASSUME script' = script
  PROVE  /\ ListShape(ifs') => ListShape(ifs)'
         /\ PassOK(ifs', pc' - 1) => PassOK(ifs, pc - 1)'
         /\ Recorded(ifs', Len(script)) => Recorded(ifs, Len(script))'
         /\ RunShape(ifs', pc', ifEntry') => RunShape(ifs, pc, ifEntry)'
<1>1. ListShape(ifs') => ListShape(ifs)'
  BY Zenon, TextFixed DEF ListShape, Genuine, IfLine
<1>2. Recorded(ifs', pc' - 1) => Recorded(ifs, pc - 1)'
  BY Zenon, TextFixed DEF Recorded, IfLine
<1>3. Recorded(ifs', Len(script)) => Recorded(ifs, Len(script))'
  BY Zenon, TextFixed DEF Recorded, IfLine
<1>4. Opened(ifs', pc' - 1) => Opened(ifs, pc - 1)'
  BY Zenon, TextFixed DEF Opened, IfLine
<1>5. RunShape(ifs', pc', ifEntry') => RunShape(ifs, pc, ifEntry)'
  BY Zenon DEF RunShape, IfLine
<1> QED BY Zenon, <1>1, <1>2, <1>3, <1>4, <1>5 DEF PassOK

\* The list and the text have their types.
LEMMA ListFacts ==
  ASSUME ScriptTypeOK, Counted
  PROVE  /\ script \in Seq(Seq(LineArgument)) /\ Len(script) \in Nat
         /\ DOMAIN script = 1..Len(script) /\ pc \in 1..Len(script) + 1
         /\ Len(ifs) \in Nat /\ DOMAIN ifs = 1..Len(ifs)
         /\ \A k \in 0..Len(script) : Depth(k) \in Int
         /\ \A j \in DOMAIN ifs :
              /\ ifs[j].ifPosition \in Nat /\ IfLine(ifs[j]) \in Int
              /\ ifs[j].elsePosition \in Nat \cup {NotFound}
              /\ ifs[j].endifPosition \in Nat \cup {NotFound}
<1>1. script \in Seq(Seq(LineArgument)) BY ScriptsAssumption DEF ScriptTypeOK
<1>2. pc \in 1..Len(script) + 1 /\ ifs \in Seq(IfStatement) BY DEF ScriptTypeOK
<1>3. \A k \in 0..Len(script) : Depth(k) \in Int BY Zenon, <1>1, DepthSteps
<1>4. ASSUME NEW j \in DOMAIN ifs
      PROVE  /\ ifs[j].ifPosition \in Nat /\ IfLine(ifs[j]) \in Int
             /\ ifs[j].elsePosition \in Nat \cup {NotFound}
             /\ ifs[j].endifPosition \in Nat \cup {NotFound}
  <2>1. ifs[j] \in IfStatement BY <1>2
  <2> QED BY <2>1 DEF IfStatement, IfLine
<1>5. /\ Len(script) \in Nat /\ DOMAIN script = 1..Len(script)
      /\ Len(ifs) \in Nat /\ DOMAIN ifs = 1..Len(ifs)
  BY <1>1, <1>2
<1> QED BY <1>1, <1>2, <1>3, <1>4, <1>5

\* What is before a line is before the next.
LEMMA UpTo ==
  \A len \in Nat : \A n \in 1..len :
    /\ n + 1 <= n + 1
    /\ \A x \in Int : x <= n => x <= n + 1
    /\ \A x \in 1..n - 1 : x <= n
OBVIOUS

\* The kinds of lines that the nesting is about.
LEMMA KindsApart ==
  \A line :
    /\ Is(line, FUNCTION_IF) => ~Is(line, FUNCTION_ELSE) /\ ~Is(line, FUNCTION_ENDIF) /\ ~Is(line, FUNCTION_GOTO)
    /\ Is(line, FUNCTION_ELSE) => ~Is(line, FUNCTION_ENDIF) /\ ~Is(line, FUNCTION_GOTO)
    /\ Is(line, FUNCTION_ENDIF) => ~Is(line, FUNCTION_GOTO)
<1>1. /\ {FUNCTION_IF, FUNCTION_ELSE, FUNCTION_ENDIF, FUNCTION_GOTO} \subseteq Int
      /\ FUNCTION_IF # FUNCTION_ELSE /\ FUNCTION_IF # FUNCTION_ENDIF /\ FUNCTION_IF # FUNCTION_GOTO
      /\ FUNCTION_ELSE # FUNCTION_ENDIF /\ FUNCTION_ELSE # FUNCTION_GOTO
      /\ FUNCTION_ENDIF # FUNCTION_GOTO
  BY DEF FUNCTION_IF, FUNCTION_ELSE, FUNCTION_ENDIF, FUNCTION_GOTO
<1> QED BY Zenon, <1>1, LinesApart

\* Where the entries lie while line n is read.
LEMMA EntryFacts ==
  ASSUME ScriptTypeOK, Counted, NEW n \in DOMAIN script, PassOK(ifs, n - 1), NEW k \in DOMAIN ifs
  PROVE  /\ IfLine(ifs[k]) \in 1..n - 1 /\ IfLine(ifs[k]) \in IfLines
         /\ Depth(IfLine(ifs[k]) - 1) >= 0 /\ Depth(IfLine(ifs[k]) - 1) \in Int
         /\ ifs[k].elsePosition <= n /\ ifs[k].endifPosition <= n
         /\ ifs[k].elsePosition \in Int /\ ifs[k].endifPosition \in Int
<1> DEFINE at == IfLine(ifs[k])
<1>0. /\ Len(script) \in Nat /\ DOMAIN script = 1..Len(script) /\ n \in 1..Len(script)
      /\ ifs[k].elsePosition \in Nat \cup {NotFound} /\ ifs[k].endifPosition \in Nat \cup {NotFound}
  BY Zenon, ListFacts
<1>1. at \in IfLines BY Zenon DEF PassOK, ListShape, Genuine
<1>2. at \in 1..Len(script) BY Zenon, <1>0, <1>1 DEF IfLines
<1>3. /\ at <= n - 1 /\ ifs[k].elsePosition <= (n - 1) + 1 /\ ifs[k].endifPosition <= (n - 1) + 1
      /\ Depth(at - 1) >= 0
  BY Zenon DEF PassOK, Opened
<1> HIDE DEF at
<1>4. /\ at \in 1..n - 1 /\ at - 1 \in 0..Len(script)
      /\ ifs[k].elsePosition \in Int /\ ifs[k].endifPosition \in Int
      /\ ifs[k].elsePosition <= n /\ ifs[k].endifPosition <= n
  BY ONLY <1>0, <1>2, <1>3 DEF NotFound
<1>5. Depth(at - 1) \in Int BY Zenon, <1>4, ListFacts
<1> QED BY Zenon, <1>1, <1>3, <1>4, <1>5 DEF at

\* An ENDIF closes the last entry that has none: the IF that is open at the depth it ends.
LEMMA PassEndif ==
  ASSUME ScriptTypeOK, Counted, NEW n \in DOMAIN script, PassOK(ifs, n - 1), Is(script[n], FUNCTION_ENDIF),
         NEW j \in DOMAIN ifs, ifs[j].endifPosition = NotFound,
         \A k \in j + 1..Len(ifs) : ifs[k].endifPosition # NotFound,
         NEW list, DOMAIN list = DOMAIN ifs,
         \A k \in DOMAIN ifs :
           /\ list[k].ifPosition = ifs[k].ifPosition /\ list[k].elsePosition = ifs[k].elsePosition
           /\ list[k].endifPosition = IF k = j THEN n + 1 ELSE ifs[k].endifPosition
  PROVE  PassOK(list, n)
<1> DEFINE at(k) == IfLine(ifs[k])
           v == Depth(at(j) - 1)
<1>1. /\ Len(script) \in Nat /\ DOMAIN script = 1..Len(script) /\ n \in 1..Len(script)
      /\ script \in Seq(Seq(LineArgument))
      /\ Len(ifs) \in Nat /\ DOMAIN ifs = 1..Len(ifs)
      /\ \A k \in 0..Len(script) : Depth(k) \in Int
  BY ListFacts
<1>0. Len(script) \in Nat /\ n \in 1..Len(script) BY Zenon, <1>1
<1>2. \A k \in DOMAIN ifs :
        /\ at(k) \in 1..n - 1 /\ Depth(at(k) - 1) >= 0 /\ Depth(at(k) - 1) \in Int
        /\ at(k) \in IfLines
        /\ ifs[k].elsePosition <= n /\ ifs[k].endifPosition <= n
        /\ ifs[k].elsePosition \in Int /\ ifs[k].endifPosition \in Int
        /\ list[k].elsePosition = ifs[k].elsePosition /\ IfLine(list[k]) = at(k)
  BY Zenon, EntryFacts DEF IfLine
<1>3. \A i, k \in DOMAIN ifs : i < k => at(i) < at(k)
  BY Zenon DEF PassOK, ListShape
<1>4. \A k \in DOMAIN ifs : ifs[k].endifPosition = NotFound =>
        \A i \in at(k)..n - 1 : Depth(i) > Depth(at(k) - 1)
  BY Zenon DEF PassOK, Opened
<1>5. Depth(n - 1) >= 0 /\ \A d \in 0..Depth(n - 1) - 1 : \E k \in DOMAIN ifs :
        ifs[k].endifPosition = NotFound /\ Depth(at(k) - 1) = d
  BY Zenon DEF PassOK, Opened
<1>6. Depth(n) = Depth(n - 1) - 1 /\ Depth(n) \in Int /\ Depth(n - 1) \in Int
  <2>1. Depth(n) = Depth(n - 1) - 1 BY Zenon, <1>1, DepthSteps
  <2> QED BY <1>1, <2>1
<1> HIDE DEF at
<1>7. ASSUME NEW k \in DOMAIN ifs, k # j, ifs[k].endifPosition = NotFound
      PROVE  Depth(at(k) - 1) < v
  <2>7. k \notin j + 1..Len(ifs) /\ k # j /\ k \in 1..Len(ifs) /\ j \in 1..Len(ifs) /\ Len(ifs) \in Nat
    BY Zenon, <1>1, <1>7
  <2>1. k < j BY ONLY <2>7
  <2>2. at(k) < at(j) BY Zenon, <1>3, <2>1
  <2>3. at(k) \in 1..n - 1 /\ at(j) \in 1..n - 1 BY Zenon, <1>2, <1>7
  <2>4. at(j) - 1 \in at(k)..n - 1 BY ONLY <1>0, <2>2, <2>3
  <2>5. Depth(at(j) - 1) > Depth(at(k) - 1) BY Zenon, <1>4, <1>7, <2>4
  <2>6. Depth(at(j) - 1) \in Int /\ Depth(at(k) - 1) \in Int BY Zenon, <1>2, <1>7
  <2> QED BY ONLY <2>5, <2>6
<1>8. v >= 0 /\ v \in Int /\ Depth(n) = v
  <2>1. v >= 0 /\ v \in Int BY <1>2
  <2>5. at(j) \in 1..n - 1 BY Zenon, <1>2
  <2>2. n - 1 \in at(j)..n - 1 BY ONLY <1>0, <2>5
  <2>3. Depth(n - 1) > v BY <1>4, <2>2
  <2>4. ASSUME Depth(n - 1) > v + 1 PROVE FALSE
    <3>1. v + 1 \in 0..Depth(n - 1) - 1 BY <1>6, <2>1, <2>4
    <3>2. PICK k \in DOMAIN ifs : ifs[k].endifPosition = NotFound /\ Depth(at(k) - 1) = v + 1
      BY <1>5, <3>1
    <3>3. k # j BY <2>1, <3>2
    <3>4. v + 1 < v BY <1>7, <3>2, <3>3
    <3> QED BY <2>1, <3>4
  <2> HIDE DEF v
  <2> QED BY <1>6, <2>1, <2>3, <2>4
<1>9. ClosedAt(at(j), n)
  <2>1. at(j) < n BY <1>1, <1>2
  <2> QED BY Zenon, <1>4, <1>8, <2>1 DEF ClosedAt
<1>10. ListShape(list)
  <2>1. ASSUME NEW k \in DOMAIN list PROVE Genuine(list[k])
    <3>1. IfLine(list[k]) = at(k) /\ at(k) \in IfLines BY Zenon, <1>2, <2>1
    <3>2. list[k].elsePosition # NotFound => list[k].elsePosition - 1 \in ElsesOf(at(k))
      BY Zenon, <1>2, <2>1 DEF PassOK, ListShape, Genuine, at
    <3>3. list[k].endifPosition # NotFound => ClosedAt(at(k), list[k].endifPosition - 1)
      <4>1. CASE k = j
        <5>1. list[k].endifPosition = n + 1 BY Zenon, <4>1
        <5>2. list[k].endifPosition - 1 = n BY <5>1, <1>1
        <5> QED BY Zenon, <1>9, <4>1, <5>2
      <4>2. CASE k # j
        BY Zenon, <2>1, <4>2 DEF PassOK, ListShape, Genuine, at
      <4> QED BY <4>1, <4>2
    <3> QED BY Zenon, <3>1, <3>2, <3>3 DEF Genuine
  <2>2. \A i, k \in DOMAIN list : i < k => IfLine(list[i]) < IfLine(list[k])
    <3> SUFFICES ASSUME NEW i \in DOMAIN ifs, NEW k \in DOMAIN ifs, i < k
                 PROVE  IfLine(list[i]) < IfLine(list[k])
      OBVIOUS
    <3>1. IfLine(list[i]) = at(i) /\ IfLine(list[k]) = at(k) BY Zenon, <1>2
    <3> QED BY Zenon, <1>3, <3>1
  <2>3. \A i, k \in DOMAIN list :
          list[i].elsePosition = list[k].elsePosition /\ list[i].elsePosition # NotFound => i = k
    BY Zenon DEF PassOK, ListShape
  <2> QED BY Zenon, <2>1, <2>2, <2>3 DEF ListShape
<1>11. Recorded(list, n)
  <2>1. ASSUME NEW m \in DOMAIN script, m <= n, Is(script[m], FUNCTION_ENDIF)
        PROVE  \E k \in DOMAIN list : list[k].endifPosition = m + 1
    <3>1. CASE m = n BY Zenon, <3>1
    <3>2. CASE m # n
      <4>1. m <= n - 1 BY <1>1, <2>1, <3>2
      <4>2. PICK k \in DOMAIN ifs : ifs[k].endifPosition = m + 1
        BY Zenon, <2>1, <4>1 DEF PassOK, Recorded
      <4>4. m \in 1..Len(script) BY Zenon, <1>1, <2>1
      <4>5. m + 1 # NotFound BY ONLY <1>0, <4>4 DEF NotFound
      <4>3. k # j BY Zenon, <4>2, <4>5
      <4> QED BY Zenon, <4>2, <4>3
    <3> QED BY <3>1, <3>2
  <2>2. ASSUME NEW k \in DOMAIN list, list[k].elsePosition = NotFound,
               NEW m \in ElsesOf(IfLine(list[k]))
        PROVE  m > n
    <3>1. at(k) \in IfLines /\ m \in ElsesOf(at(k)) /\ ifs[k].elsePosition = NotFound
      BY Zenon, <1>2, <2>2
    <3>2. m > n - 1 BY Zenon, <2>2, <3>1 DEF PassOK, Recorded, at
    <3>3. m \in DOMAIN script /\ Is(script[m], FUNCTION_ELSE) BY Zenon, <1>1, <3>1, ElseFacts
    <3>4. m # n BY Zenon, <3>3, KindsApart
    <3> QED BY <1>1, <3>2, <3>3, <3>4
  <2> QED BY Zenon, <2>1, <2>2 DEF Recorded
<1>12. Opened(list, n)
  <2>1. ASSUME NEW k \in DOMAIN list
        PROVE  /\ IfLine(list[k]) <= n /\ list[k].elsePosition <= n + 1 /\ list[k].endifPosition <= n + 1
               /\ Depth(IfLine(list[k]) - 1) >= 0
    <3>1. IfLine(list[k]) = at(k) /\ list[k].elsePosition = ifs[k].elsePosition BY Zenon, <1>2, <2>1
    <3>2. list[k].endifPosition = n + 1 \/ list[k].endifPosition = ifs[k].endifPosition
      BY Zenon, <2>1
    <3>3. /\ at(k) \in 1..n - 1 /\ Depth(at(k) - 1) >= 0
          /\ ifs[k].elsePosition <= n /\ ifs[k].endifPosition <= n
          /\ ifs[k].elsePosition \in Int /\ ifs[k].endifPosition \in Int
      BY Zenon, <1>2, <2>1
    <3>4. at(k) <= n /\ ifs[k].elsePosition <= n + 1 /\ ifs[k].endifPosition <= n + 1 /\ n + 1 <= n + 1
      BY Zenon, <1>0, <3>3, UpTo
    <3> QED BY Zenon, <3>1, <3>2, <3>3, <3>4
  <2>2. ASSUME NEW k \in DOMAIN list, list[k].endifPosition = NotFound,
               NEW i \in IfLine(list[k])..n
        PROVE  Depth(i) > Depth(IfLine(list[k]) - 1)
    <3>1. n + 1 # NotFound BY <1>1 DEF NotFound
    <3>2. IfLine(list[k]) = at(k) /\ k # j /\ ifs[k].endifPosition = NotFound
      BY Zenon, <1>2, <2>2, <3>1
    <3>3. CASE i = n BY <1>2, <1>7, <1>8, <2>2, <3>2, <3>3
    <3>4. CASE i # n
      <4>1. i \in at(k)..n - 1 BY <1>1, <1>2, <2>2, <3>2, <3>4
      <4> QED BY Zenon, <1>4, <2>2, <3>2, <4>1
    <3> QED BY <3>3, <3>4
  <2>3. ASSUME NEW d \in 0..Depth(n) - 1
        PROVE  \E k \in DOMAIN list : list[k].endifPosition = NotFound /\ Depth(IfLine(list[k]) - 1) = d
    <3>1. d \in 0..Depth(n - 1) - 1 /\ d # v BY <1>6, <1>8
    <3>2. PICK k \in DOMAIN ifs : ifs[k].endifPosition = NotFound /\ Depth(at(k) - 1) = d
      BY Zenon, <1>5, <3>1
    <3>3. k # j BY Zenon, <3>1, <3>2
    <3> QED BY Zenon, <1>2, <3>2, <3>3
  <2> QED BY Zenon, <1>8, <2>1, <2>2, <2>3 DEF Opened
<1> QED BY Zenon, <1>10, <1>11, <1>12 DEF PassOK

\* An ELSE goes to the last entry that has none: by then the IFs inside the one that it
\* belongs to have their own.
LEMMA PassElse ==
  ASSUME ScriptTypeOK, Counted, Balanced, InnerElses,
         NEW n \in DOMAIN script, PassOK(ifs, n - 1), ListedBelow(n), Is(script[n], FUNCTION_ELSE),
         NEW j \in DOMAIN ifs, ifs[j].elsePosition = NotFound,
         \A k \in j + 1..Len(ifs) : ifs[k].elsePosition # NotFound,
         NEW list, DOMAIN list = DOMAIN ifs,
         \A k \in DOMAIN ifs :
           /\ list[k].ifPosition = ifs[k].ifPosition /\ list[k].endifPosition = ifs[k].endifPosition
           /\ list[k].elsePosition = IF k = j THEN n + 1 ELSE ifs[k].elsePosition
  PROVE  PassOK(list, n)
<1> DEFINE at(k) == IfLine(ifs[k])
<1>1. /\ Len(script) \in Nat /\ DOMAIN script = 1..Len(script) /\ n \in 1..Len(script)
      /\ script \in Seq(Seq(LineArgument))
      /\ Len(ifs) \in Nat /\ DOMAIN ifs = 1..Len(ifs)
      /\ \A k \in 0..Len(script) : Depth(k) \in Int
  BY ListFacts
<1>0. Len(script) \in Nat /\ n \in 1..Len(script) /\ Len(ifs) \in Nat /\ DOMAIN ifs = 1..Len(ifs)
  BY Zenon, <1>1
<1>2. \A k \in DOMAIN ifs :
        /\ at(k) \in 1..n - 1 /\ Depth(at(k) - 1) >= 0 /\ Depth(at(k) - 1) \in Int
        /\ at(k) \in IfLines
        /\ ifs[k].elsePosition <= n /\ ifs[k].endifPosition <= n
        /\ ifs[k].elsePosition \in Int /\ ifs[k].endifPosition \in Int
        /\ list[k].endifPosition = ifs[k].endifPosition /\ IfLine(list[k]) = at(k)
  BY Zenon, EntryFacts DEF IfLine
<1>3. \A i, k \in DOMAIN ifs : i < k => at(i) < at(k)
  BY Zenon DEF PassOK, ListShape
<1>4. \A k \in DOMAIN ifs : ifs[k].endifPosition = NotFound =>
        \A i \in at(k)..n - 1 : Depth(i) > Depth(at(k) - 1)
  BY Zenon DEF PassOK, Opened
<1>5. \A k \in DOMAIN ifs :
        /\ ifs[k].endifPosition # NotFound => ClosedAt(at(k), ifs[k].endifPosition - 1)
        /\ ifs[k].elsePosition # NotFound => ifs[k].elsePosition - 1 \in ElsesOf(at(k))
        /\ ifs[k].elsePosition = NotFound => \A m \in ElsesOf(at(k)) : m > n - 1
  BY Zenon DEF PassOK, ListShape, Genuine, Recorded
<1>6. Depth(n) = Depth(n - 1)
  BY Zenon, <1>1, DepthSteps, KindsApart
<1> HIDE DEF at
<1>7. ASSUME NEW k \in DOMAIN ifs, ifs[k].endifPosition # NotFound
      PROVE  EndifOf(at(k)) \in Int /\ EndifOf(at(k)) < n
  <2>1. at(k) \in DOMAIN script BY Zenon, <1>2, <1>7 DEF IfLines
  <2>2. EndifOf(at(k)) = ifs[k].endifPosition - 1 BY Zenon, <1>1, <1>5, <1>7, <2>1, EndifIs
  <2>3. ifs[k].endifPosition \in Int /\ ifs[k].endifPosition <= n BY Zenon, <1>2, <1>7
  <2> QED BY ONLY <1>0, <2>2, <2>3
<1>8. ASSUME NEW k \in DOMAIN ifs, n \in ElsesOf(at(k))
      PROVE  k = j
  <2>1. /\ at(k) \in IfLines /\ n <= EndifOf(at(k)) /\ Depth(n - 1) = Depth(at(k))
    BY Zenon, <1>1, <1>2, <1>8, ElseFacts
  <2>2. ifs[k].elsePosition = NotFound
    <3> SUFFICES ASSUME ifs[k].elsePosition # NotFound PROVE FALSE
      OBVIOUS
    <3>1. ifs[k].elsePosition - 1 = n BY Zenon, <1>1, <1>5, <1>8, <2>1, ElsesOnce
    <3>2. ifs[k].elsePosition \in Int /\ ifs[k].elsePosition <= n BY Zenon, <1>2, <1>8
    <3> QED BY ONLY <1>0, <3>1, <3>2
  <2>3. k <= j
    <3>1. k \in j + 1..Len(ifs) => FALSE BY Zenon, <2>2
    <3> QED BY ONLY <1>0, <3>1, j \in DOMAIN ifs, k \in DOMAIN ifs
  <2>4. ASSUME k < j PROVE FALSE
    <3>1. at(k) < at(j) /\ at(k) \in 1..n - 1 /\ at(j) \in 1..n - 1 /\ at(j) \in IfLines
      BY Zenon, <1>2, <1>3, <1>8, <2>4
    <3>2. /\ at(j) \in at(k) + 1..n /\ at(j) - 1 \in at(k)..n - 1 /\ n - 1 \in at(j)..n - 1
          /\ at(k) \in 1..Len(script)
      BY ONLY <1>0, <3>1
    <3>3. PICK x \in ElsesOf(at(j)) : TRUE
      <4>1. at(j) \in IfLines \cap (at(k) + 1..n) BY Zenon, <3>1, <3>2
      <4>2. ElsesOf(at(j)) # {} BY Zenon, <1>8, <2>1, <4>1 DEF InnerElses
      <4> QED BY Zenon, <4>2
    <3>4. /\ x > n - 1 /\ x <= EndifOf(at(j)) /\ x \in DOMAIN script
      BY Zenon, <1>1, <1>5, <3>1, <3>3, ElseFacts
    <3>5. ifs[k].endifPosition = NotFound
      <4> SUFFICES ASSUME ifs[k].endifPosition # NotFound PROVE FALSE
        OBVIOUS
      <4>1. EndifOf(at(k)) \in Int /\ EndifOf(at(k)) < n BY Zenon, <1>7, <1>8
      <4> QED BY ONLY <1>0, <2>1, <4>1
    <3>6. Depth(at(j) - 1) > Depth(at(k) - 1) BY Zenon, <1>4, <1>8, <3>2, <3>5
    <3>7. Depth(at(k)) = Depth(at(k) - 1) + 1
      BY Zenon, <1>1, <2>1, DepthSteps DEF IfLines
    <3>8. Depth(at(j) - 1) \in Int /\ Depth(at(k) - 1) \in Int /\ Depth(n - 1) \in Int
      <4>1. n - 1 \in 0..Len(script) BY ONLY <1>0
      <4> QED BY Zenon, <1>1, <1>2, <1>8, <4>1
    <3>9. ifs[j].endifPosition # NotFound
      <4> SUFFICES ASSUME ifs[j].endifPosition = NotFound PROVE FALSE
        OBVIOUS
      <4>1. Depth(n - 1) > Depth(at(j) - 1) BY Zenon, <1>4, <3>2
      <4> QED BY ONLY <2>1, <3>6, <3>7, <3>8, <4>1
    <3>10. EndifOf(at(j)) \in Int /\ EndifOf(at(j)) < n BY Zenon, <1>7, <3>9
    <3>11. x \in Int BY <1>1, <3>4
    <3> QED BY ONLY <1>0, <3>4, <3>10, <3>11
  <2> QED BY ONLY <1>0, <2>3, <2>4, j \in DOMAIN ifs, k \in DOMAIN ifs
<1>9. n \in ElsesOf(at(j))
  <2>1. PICK m \in IfLines : n \in ElsesOf(m) BY Zenon DEF Balanced
  <2>2. m < n /\ m \in DOMAIN script /\ Is(script[m], FUNCTION_IF)
    BY Zenon, <1>1, <2>1, ElseFacts DEF IfLines
  <2>3. PICK k \in DOMAIN ifs : ifs[k].ifPosition = m + 1 BY Zenon, <2>2 DEF ListedBelow
  <2>4. at(k) = m BY <1>1, <2>2, <2>3 DEF at, IfLine
  <2> QED BY Zenon, <1>8, <2>1, <2>4
<1>10. n + 1 # NotFound /\ (n + 1) - 1 = n /\ n <= n + 1 BY ONLY <1>0 DEF NotFound
<1>11. ListShape(list)
  <2>1. ASSUME NEW k \in DOMAIN list PROVE Genuine(list[k])
    <3>1. IfLine(list[k]) = at(k) /\ at(k) \in IfLines BY Zenon, <1>2, <2>1
    <3>2. list[k].endifPosition # NotFound => ClosedAt(at(k), list[k].endifPosition - 1)
      BY Zenon, <1>2, <1>5, <2>1
    <3>3. list[k].elsePosition # NotFound => list[k].elsePosition - 1 \in ElsesOf(at(k))
      BY Zenon, <1>5, <1>9, <1>10, <2>1
    <3> QED BY Zenon, <3>1, <3>2, <3>3 DEF Genuine
  <2>2. \A i, k \in DOMAIN list : i < k => IfLine(list[i]) < IfLine(list[k])
    <3> SUFFICES ASSUME NEW i \in DOMAIN ifs, NEW k \in DOMAIN ifs, i < k
                 PROVE  IfLine(list[i]) < IfLine(list[k])
      OBVIOUS
    <3>1. IfLine(list[i]) = at(i) /\ IfLine(list[k]) = at(k) BY Zenon, <1>2
    <3> QED BY Zenon, <1>3, <3>1
  <2>3. \A i, k \in DOMAIN list :
          list[i].elsePosition = list[k].elsePosition /\ list[i].elsePosition # NotFound => i = k
    <3>1. \A k \in DOMAIN ifs : ifs[k].elsePosition # n + 1
      <4> SUFFICES ASSUME NEW k \in DOMAIN ifs PROVE ifs[k].elsePosition # n + 1
        OBVIOUS
      <4>1. ifs[k].elsePosition \in Int /\ ifs[k].elsePosition <= n BY Zenon, <1>2
      <4> QED BY ONLY <1>0, <4>1
    <3>2. \A i, k \in DOMAIN ifs :
            ifs[i].elsePosition = ifs[k].elsePosition /\ ifs[i].elsePosition # NotFound => i = k
      BY Zenon DEF PassOK, ListShape
    <3> SUFFICES ASSUME NEW i \in DOMAIN ifs, NEW k \in DOMAIN ifs,
                        list[i].elsePosition = list[k].elsePosition,
                        list[i].elsePosition # NotFound, i # k
                 PROVE  FALSE
      OBVIOUS
    <3>3. CASE i = j
      <4>1. list[i].elsePosition = n + 1 /\ list[k].elsePosition = ifs[k].elsePosition BY Zenon, <3>3
      <4> QED BY Zenon, <3>1, <4>1
    <3>4. CASE k = j
      <4>1. list[k].elsePosition = n + 1 /\ list[i].elsePosition = ifs[i].elsePosition BY Zenon, <3>4
      <4> QED BY Zenon, <3>1, <4>1
    <3>5. CASE i # j /\ k # j
      <4>1. list[k].elsePosition = ifs[k].elsePosition /\ list[i].elsePosition = ifs[i].elsePosition
        BY Zenon, <3>5
      <4> QED BY Zenon, <3>2, <4>1
    <3> QED BY <3>3, <3>4, <3>5
  <2> QED BY Zenon, <2>1, <2>2, <2>3 DEF ListShape
<1>12. Recorded(list, n)
  <2>1. ASSUME NEW m \in DOMAIN script, m <= n, Is(script[m], FUNCTION_ENDIF)
        PROVE  \E k \in DOMAIN list : list[k].endifPosition = m + 1
    <3>1. m # n BY Zenon, <2>1, KindsApart
    <3>2. m <= n - 1 BY <1>1, <2>1, <3>1
    <3> QED BY Zenon, <2>1, <3>2 DEF PassOK, Recorded
  <2>2. ASSUME NEW k \in DOMAIN list, list[k].elsePosition = NotFound,
               NEW m \in ElsesOf(IfLine(list[k]))
        PROVE  m > n
    <3>1. k # j /\ m \in ElsesOf(at(k)) /\ ifs[k].elsePosition = NotFound /\ at(k) \in IfLines
      BY Zenon, <1>2, <1>10, <2>2
    <3>2. m > n - 1 /\ m # n BY Zenon, <1>5, <1>8, <2>2, <3>1
    <3>3. m \in 1..Len(script) BY Zenon, <1>1, <3>1, ElseFacts
    <3> QED BY ONLY <1>0, <3>2, <3>3
  <2> QED BY Zenon, <2>1, <2>2 DEF Recorded
<1>13. Opened(list, n)
  <2>1. ASSUME NEW k \in DOMAIN list
        PROVE  /\ IfLine(list[k]) <= n /\ list[k].elsePosition <= n + 1 /\ list[k].endifPosition <= n + 1
               /\ Depth(IfLine(list[k]) - 1) >= 0
    <3>1. IfLine(list[k]) = at(k) /\ list[k].endifPosition = ifs[k].endifPosition BY Zenon, <1>2, <2>1
    <3>2. list[k].elsePosition = n + 1 \/ list[k].elsePosition = ifs[k].elsePosition
      BY Zenon, <2>1
    <3>3. /\ at(k) \in 1..n - 1 /\ Depth(at(k) - 1) >= 0
          /\ ifs[k].elsePosition <= n /\ ifs[k].endifPosition <= n
          /\ ifs[k].elsePosition \in Int /\ ifs[k].endifPosition \in Int
      BY Zenon, <1>2, <2>1
    <3>4. at(k) <= n /\ ifs[k].elsePosition <= n + 1 /\ ifs[k].endifPosition <= n + 1 /\ n + 1 <= n + 1
      BY Zenon, <1>0, <3>3, UpTo
    <3> QED BY Zenon, <3>1, <3>2, <3>3, <3>4
  <2>2. ASSUME NEW k \in DOMAIN list, list[k].endifPosition = NotFound,
               NEW i \in IfLine(list[k])..n
        PROVE  Depth(i) > Depth(IfLine(list[k]) - 1)
    <3>1. IfLine(list[k]) = at(k) /\ ifs[k].endifPosition = NotFound /\ at(k) \in 1..n - 1
      BY Zenon, <1>2, <2>2
    <3>2. PICK i1 \in at(k)..n - 1 : Depth(i1) = Depth(i)
      <4>1. i \in at(k)..n BY Zenon, <2>2, <3>1
      <4>2. CASE i = n
        <5>1. n - 1 \in at(k)..n - 1 BY ONLY <1>0, <3>1
        <5> QED BY Zenon, <1>6, <4>2, <5>1
      <4>3. CASE i # n
        <5>1. i \in at(k)..n - 1 BY ONLY <1>0, <3>1, <4>1, <4>3
        <5> QED BY Zenon, <5>1
      <4> QED BY <4>2, <4>3
    <3>3. Depth(i1) > Depth(at(k) - 1) BY Zenon, <1>4, <2>2, <3>1
    <3> QED BY Zenon, <3>1, <3>2, <3>3
  <2>3. Depth(n) >= 0 /\ \A d \in 0..Depth(n) - 1 : \E k \in DOMAIN list :
          list[k].endifPosition = NotFound /\ Depth(IfLine(list[k]) - 1) = d
    <3>1. Depth(n - 1) >= 0 /\ \A d \in 0..Depth(n - 1) - 1 : \E k \in DOMAIN ifs :
            ifs[k].endifPosition = NotFound /\ Depth(at(k) - 1) = d
      BY Zenon DEF PassOK, Opened, at
    <3>2. \A d \in 0..Depth(n - 1) - 1 : \E k \in DOMAIN list :
            list[k].endifPosition = NotFound /\ Depth(IfLine(list[k]) - 1) = d
      <4> TAKE d \in 0..Depth(n - 1) - 1
      <4>1. PICK k \in DOMAIN ifs : ifs[k].endifPosition = NotFound /\ Depth(at(k) - 1) = d
        BY Zenon, <3>1
      <4> QED BY Zenon, <1>2, <4>1
    <3> QED BY Zenon, <1>6, <3>1, <3>2
  <2> QED BY Zenon, <2>1, <2>2, <2>3 DEF Opened
<1> QED BY Zenon, <1>11, <1>12, <1>13 DEF PassOK

\* An IF is appended.
LEMMA PassIf ==
  ASSUME ScriptTypeOK, Counted, NEW n \in DOMAIN script, PassOK(ifs, n - 1), Is(script[n], FUNCTION_IF),
         NEW list, DOMAIN list = 1..Len(ifs) + 1, \A k \in DOMAIN ifs : list[k] = ifs[k],
         IfLine(list[Len(ifs) + 1]) = n, list[Len(ifs) + 1].elsePosition = NotFound,
         list[Len(ifs) + 1].endifPosition = NotFound
  PROVE  PassOK(list, n)
<1> DEFINE at(k) == IfLine(ifs[k])
           last == Len(ifs) + 1
<1>1. /\ Len(script) \in Nat /\ DOMAIN script = 1..Len(script) /\ n \in 1..Len(script)
      /\ script \in Seq(Seq(LineArgument))
      /\ Len(ifs) \in Nat /\ DOMAIN ifs = 1..Len(ifs)
      /\ \A k \in 0..Len(script) : Depth(k) \in Int
  BY ListFacts
<1>0. Len(script) \in Nat /\ n \in 1..Len(script) /\ Len(ifs) \in Nat /\ DOMAIN ifs = 1..Len(ifs)
  BY Zenon, <1>1
<1>2. \A k \in DOMAIN ifs :
        /\ at(k) \in 1..n - 1 /\ Depth(at(k) - 1) >= 0 /\ Depth(at(k) - 1) \in Int
        /\ at(k) \in IfLines
        /\ ifs[k].elsePosition <= n /\ ifs[k].endifPosition <= n
        /\ ifs[k].elsePosition \in Int /\ ifs[k].endifPosition \in Int
  BY Zenon, EntryFacts
<1>3. /\ \A k \in DOMAIN list : k = last \/ k \in DOMAIN ifs
      /\ last \in DOMAIN list /\ last \notin DOMAIN ifs /\ \A k \in DOMAIN ifs : k < last /\ k \in DOMAIN list
  BY ONLY <1>0, DOMAIN list = 1..Len(ifs) + 1
<1>4. n \in IfLines BY Zenon DEF IfLines
<1>5. Depth(n) = Depth(n - 1) + 1 /\ Depth(n) \in Int /\ Depth(n - 1) \in Int
  <2>1. Depth(n) = Depth(n - 1) + 1 BY Zenon, <1>1, DepthSteps
  <2>2. n \in 0..Len(script) /\ n - 1 \in 0..Len(script) BY ONLY <1>0
  <2> QED BY Zenon, <1>1, <2>1, <2>2
<1>6. Depth(n - 1) >= 0 /\ \A d \in 0..Depth(n - 1) - 1 : \E k \in DOMAIN ifs :
        ifs[k].endifPosition = NotFound /\ Depth(at(k) - 1) = d
  BY Zenon DEF PassOK, Opened
<1>7. \A k \in DOMAIN ifs : ifs[k].endifPosition = NotFound =>
        \A i \in at(k)..n - 1 : Depth(i) > Depth(at(k) - 1)
  BY Zenon DEF PassOK, Opened
<1> HIDE DEF last
<1>8. list[last].elsePosition = NotFound /\ list[last].endifPosition = NotFound /\ IfLine(list[last]) = n
  BY Zenon DEF last
<1>9. ListShape(list)
  <2>1. ASSUME NEW k \in DOMAIN list PROVE Genuine(list[k])
    <3>1. CASE k = last BY Zenon, <1>4, <1>8, <3>1 DEF Genuine
    <3>2. CASE k \in DOMAIN ifs BY Zenon, <3>2 DEF PassOK, ListShape
    <3> QED BY Zenon, <1>3, <2>1, <3>1, <3>2
  <2>2. ASSUME NEW i \in DOMAIN list, NEW k \in DOMAIN list, i < k
        PROVE  IfLine(list[i]) < IfLine(list[k])
    <3>1. i \in DOMAIN ifs
      <4>1. DOMAIN list = 1..last /\ last = Len(ifs) + 1 BY Zenon DEF last
      <4> QED BY ONLY <1>0, <2>2, <4>1
    <3>2. CASE k = last
      <4>1. IfLine(list[k]) = n /\ IfLine(list[i]) = at(i) /\ at(i) \in 1..n - 1
        BY Zenon, <1>2, <1>8, <3>1, <3>2
      <4> HIDE DEF at
      <4>2. at(i) < n BY ONLY <1>0, <4>1
      <4> QED BY Zenon, <4>1, <4>2
    <3>3. CASE k \in DOMAIN ifs BY Zenon, <2>2, <3>1, <3>3 DEF PassOK, ListShape
    <3> QED BY Zenon, <1>3, <2>2, <3>2, <3>3
  <2>3. ASSUME NEW i \in DOMAIN list, NEW k \in DOMAIN list,
               list[i].elsePosition = list[k].elsePosition, list[i].elsePosition # NotFound
        PROVE  i = k
    <3>1. i \in DOMAIN ifs /\ k \in DOMAIN ifs BY Zenon, <1>3, <1>8, <2>3
    <3> QED BY Zenon, <2>3, <3>1 DEF PassOK, ListShape
  <2> QED BY Zenon, <2>1, <2>2, <2>3 DEF ListShape
<1>10. Recorded(list, n)
  <2>1. ASSUME NEW m \in DOMAIN script, m <= n, Is(script[m], FUNCTION_ENDIF)
        PROVE  \E k \in DOMAIN list : list[k].endifPosition = m + 1
    <3>1. m # n BY Zenon, <2>1, KindsApart
    <3>2. m <= n - 1 BY <1>1, <2>1, <3>1
    <3>3. PICK k \in DOMAIN ifs : ifs[k].endifPosition = m + 1
      BY Zenon, <2>1, <3>2 DEF PassOK, Recorded
    <3> QED BY Zenon, <1>3, <3>3
  <2>2. ASSUME NEW k \in DOMAIN list, list[k].elsePosition = NotFound,
               NEW m \in ElsesOf(IfLine(list[k]))
        PROVE  m > n
    <3>1. CASE k = last BY Zenon, <1>1, <1>4, <1>8, <2>2, <3>1, ElseFacts
    <3>2. CASE k \in DOMAIN ifs
      <4>1. m > n - 1 BY Zenon, <2>2, <3>2 DEF PassOK, Recorded
      <4>2. m \in 1..Len(script) /\ Is(script[m], FUNCTION_ELSE) BY Zenon, <1>1, <1>2, <2>2, <3>2, ElseFacts
      <4>3. m # n BY Zenon, <4>2, KindsApart
      <4> QED BY ONLY <1>0, <4>1, <4>2, <4>3
    <3> QED BY Zenon, <1>3, <2>2, <3>1, <3>2
  <2> QED BY Zenon, <2>1, <2>2 DEF Recorded
<1>11. Opened(list, n)
  <2>1. ASSUME NEW k \in DOMAIN list
        PROVE  /\ IfLine(list[k]) <= n /\ list[k].elsePosition <= n + 1 /\ list[k].endifPosition <= n + 1
               /\ Depth(IfLine(list[k]) - 1) >= 0
    <3>1. CASE k = last
      <4>1. n <= n /\ NotFound <= n + 1 BY ONLY <1>0 DEF NotFound
      <4> QED BY Zenon, <1>6, <1>8, <3>1, <4>1
    <3>2. CASE k \in DOMAIN ifs
      <4>1. /\ at(k) \in 1..n - 1 /\ Depth(at(k) - 1) >= 0
            /\ ifs[k].elsePosition <= n /\ ifs[k].endifPosition <= n
            /\ ifs[k].elsePosition \in Int /\ ifs[k].endifPosition \in Int
        BY Zenon, <1>2, <3>2
      <4> HIDE DEF at
      <4>2. at(k) <= n /\ ifs[k].elsePosition <= n + 1 /\ ifs[k].endifPosition <= n + 1
        BY Zenon, <1>0, <4>1, UpTo
      <4> QED BY Zenon, <3>2, <4>1, <4>2 DEF at
    <3> QED BY Zenon, <1>3, <2>1, <3>1, <3>2
  <2>2. ASSUME NEW k \in DOMAIN list, list[k].endifPosition = NotFound,
               NEW i \in IfLine(list[k])..n
        PROVE  Depth(i) > Depth(IfLine(list[k]) - 1)
    <3>1. CASE k = last
      <4>1. i \in n..n BY Zenon, <1>8, <2>2, <3>1
      <4>2. i = n BY ONLY <1>0, <4>1
      <4>3. Depth(n) > Depth(n - 1) BY ONLY <1>5
      <4> QED BY Zenon, <1>8, <3>1, <4>2, <4>3
    <3>2. CASE k \in DOMAIN ifs
      <4>1. /\ IfLine(list[k]) = at(k) /\ ifs[k].endifPosition = NotFound /\ at(k) \in 1..n - 1
            /\ Depth(at(k) - 1) \in Int /\ i \in at(k)..n
        BY Zenon, <1>2, <2>2, <3>2
      <4> HIDE DEF at
      <4>2. CASE i = n
        <5>1. n - 1 \in at(k)..n - 1 BY ONLY <1>0, <4>1
        <5>2. Depth(n - 1) > Depth(at(k) - 1) BY Zenon, <1>7, <3>2, <4>1, <5>1
        <5>3. Depth(n) > Depth(at(k) - 1) BY ONLY <1>5, <4>1, <5>2
        <5> QED BY Zenon, <4>1, <4>2, <5>3
      <4>3. CASE i # n
        <5>1. i \in at(k)..n - 1 BY ONLY <1>0, <4>1, <4>3
        <5> QED BY Zenon, <1>7, <3>2, <4>1, <5>1
      <4> QED BY <4>2, <4>3
    <3> QED BY Zenon, <1>3, <2>2, <3>1, <3>2
  <2>3. ASSUME NEW d \in 0..Depth(n) - 1
        PROVE  \E k \in DOMAIN list : list[k].endifPosition = NotFound /\ Depth(IfLine(list[k]) - 1) = d
    <3>1. CASE d = Depth(n - 1) BY Zenon, <1>3, <1>8, <3>1
    <3>2. CASE d # Depth(n - 1)
      <4>1. d \in 0..Depth(n - 1) - 1 BY ONLY <1>5, <2>3, <3>2
      <4>2. PICK k \in DOMAIN ifs : ifs[k].endifPosition = NotFound /\ Depth(at(k) - 1) = d
        BY Zenon, <1>6, <4>1
      <4> QED BY Zenon, <1>3, <4>2
    <3> QED BY <3>1, <3>2
  <2>4. Depth(n) >= 0 BY ONLY <1>5, <1>6
  <2> QED BY Zenon, <2>1, <2>2, <2>3, <2>4 DEF Opened
<1> QED BY Zenon, <1>9, <1>10, <1>11 DEF PassOK

\* The other lines change nothing.
LEMMA PassPlain ==
  ASSUME ScriptTypeOK, Counted, NEW n \in DOMAIN script, PassOK(ifs, n - 1),
         \A f \in {FUNCTION_IF, FUNCTION_ELSE, FUNCTION_ENDIF} : ~Is(script[n], f)
  PROVE  PassOK(ifs, n)
<1> DEFINE at(k) == IfLine(ifs[k])
<1>1. /\ Len(script) \in Nat /\ DOMAIN script = 1..Len(script) /\ n \in 1..Len(script)
      /\ script \in Seq(Seq(LineArgument))
  BY ListFacts
<1>0. Len(script) \in Nat /\ n \in 1..Len(script) BY Zenon, <1>1
<1>2. ~Is(script[n], FUNCTION_IF) /\ ~Is(script[n], FUNCTION_ELSE) /\ ~Is(script[n], FUNCTION_ENDIF)
  BY Zenon
<1>3. Depth(n) = Depth(n - 1) BY Zenon, <1>1, <1>2, DepthSteps
<1>4. \A k \in DOMAIN ifs :
        /\ at(k) \in 1..n - 1 /\ Depth(at(k) - 1) >= 0
        /\ at(k) \in IfLines
        /\ ifs[k].elsePosition <= n /\ ifs[k].endifPosition <= n
        /\ ifs[k].elsePosition \in Int /\ ifs[k].endifPosition \in Int
  BY Zenon, EntryFacts
<1>5. Recorded(ifs, n)
  <2>1. ASSUME NEW m \in DOMAIN script, m <= n, Is(script[m], FUNCTION_ENDIF)
        PROVE  \E k \in DOMAIN ifs : ifs[k].endifPosition = m + 1
    <3>1. m # n BY Zenon, <1>2, <2>1
    <3>2. m <= n - 1 BY <1>1, <2>1, <3>1
    <3> QED BY Zenon, <2>1, <3>2 DEF PassOK, Recorded
  <2>2. ASSUME NEW k \in DOMAIN ifs, ifs[k].elsePosition = NotFound, NEW m \in ElsesOf(at(k))
        PROVE  m > n
    <3>1. m > n - 1 BY Zenon, <2>2 DEF PassOK, Recorded
    <3>2. m \in 1..Len(script) /\ Is(script[m], FUNCTION_ELSE) BY Zenon, <1>1, <1>4, <2>2, ElseFacts
    <3>3. m # n BY Zenon, <1>2, <3>2
    <3> QED BY ONLY <1>0, <3>1, <3>2, <3>3
  <2> QED BY Zenon, <2>1, <2>2 DEF Recorded
<1>6. Opened(ifs, n)
  <2>1. ASSUME NEW k \in DOMAIN ifs
        PROVE  /\ at(k) <= n /\ ifs[k].elsePosition <= n + 1 /\ ifs[k].endifPosition <= n + 1
               /\ Depth(at(k) - 1) >= 0
    <3>1. /\ at(k) \in 1..n - 1 /\ Depth(at(k) - 1) >= 0
          /\ ifs[k].elsePosition <= n /\ ifs[k].endifPosition <= n
          /\ ifs[k].elsePosition \in Int /\ ifs[k].endifPosition \in Int
      BY Zenon, <1>4, <2>1
    <3> HIDE DEF at
    <3> QED BY ONLY <1>0, <3>1
  <2>2. ASSUME NEW k \in DOMAIN ifs, ifs[k].endifPosition = NotFound, NEW i \in at(k)..n
        PROVE  Depth(i) > Depth(at(k) - 1)
    <3>1. at(k) \in 1..n - 1 BY Zenon, <1>4, <2>2
    <3>2. \A i1 \in at(k)..n - 1 : Depth(i1) > Depth(at(k) - 1) BY Zenon, <2>2 DEF PassOK, Opened
    <3> HIDE DEF at
    <3>3. CASE i = n
      <4>1. n - 1 \in at(k)..n - 1 BY ONLY <1>0, <3>1
      <4> QED BY Zenon, <1>3, <3>2, <3>3, <4>1
    <3>4. CASE i # n
      <4>1. i \in at(k)..n - 1 BY ONLY <1>0, <2>2, <3>1, <3>4
      <4> QED BY Zenon, <3>2, <4>1
    <3> QED BY <3>3, <3>4
  <2>3. Depth(n) >= 0 /\ \A d \in 0..Depth(n) - 1 : \E k \in DOMAIN ifs :
          ifs[k].endifPosition = NotFound /\ Depth(at(k) - 1) = d
    BY Zenon, <1>3 DEF PassOK, Opened
  <2> QED BY Zenon, <2>1, <2>2, <2>3 DEF Opened
<1> QED BY Zenon, <1>5, <1>6 DEF PassOK

\* A step of the pass.
LEMMA PassStep ==
  ASSUME ScriptInv, Counted, Balanced, InnerElses, PassOK(ifs, pc - 1), parseFileForIFStatements
  PROVE  PassOK(ifs', pc)
<1>1. /\ ScriptTypeOK /\ status = "parse" /\ pc \in DOMAIN script /\ ListedBelow(pc)
      /\ ifs \in Seq(IfStatement)
  BY DEF ScriptInv, ScriptTypeOK, ListInv, parseFileForIFStatements
<1>2. pc + 1 \in Nat /\ DOMAIN ifs = 1..Len(ifs) /\ Len(ifs) \in Nat /\ (pc + 1) - 1 = pc
  <2>1. pc \in 1..Len(script) + 1 /\ Len(script) \in Nat BY Zenon, <1>1, ListFacts
  <2> QED BY <1>1, <2>1
<1>3. CASE Is(script[pc], FUNCTION_IF) /\ ifs' = Append(ifs, NewIf)
  <2>1. /\ NewIf.ifPosition = pc + 1 /\ NewIf.elsePosition = NotFound /\ NewIf.endifPosition = NotFound
    BY Zenon DEF NewIf
  <2> HIDE DEF NewIf
  <2>2. /\ DOMAIN ifs' = 1..Len(ifs) + 1 /\ \A k \in DOMAIN ifs : ifs'[k] = ifs[k]
        /\ ifs'[Len(ifs) + 1] = NewIf
    BY <1>1, <1>3
  <2>3. IfLine(ifs'[Len(ifs) + 1]) = pc BY Zenon, <1>2, <2>1, <2>2 DEF IfLine
  <2> QED BY Zenon, <1>1, <1>3, <2>1, <2>2, <2>3, PassIf
<1>4. CASE /\ Is(script[pc], FUNCTION_ELSE)
           /\ \E j \in DOMAIN ifs : /\ IsOpen(ElsePlaces, j)
                                    /\ ifs' = [ifs EXCEPT ![j].elsePosition = pc + 1]
  <2>1. PICK j \in DOMAIN ifs : /\ IsOpen(ElsePlaces, j)
                                /\ ifs' = [ifs EXCEPT ![j].elsePosition = pc + 1]
    BY Zenon, <1>4
  <2>2. ifs[j].elsePosition = NotFound /\ \A k \in j + 1..Len(ifs) : ifs[k].elsePosition # NotFound
    <3>1. \A k \in DOMAIN ifs : ElsePlaces[k] = ifs[k].elsePosition BY Zenon DEF ElsePlaces
    <3>2. \A k \in j + 1..Len(ifs) : k \in DOMAIN ifs BY <1>2
    <3> QED BY Zenon, <2>1, <3>1, <3>2 DEF IsOpen
  <2>3. /\ DOMAIN ifs' = DOMAIN ifs /\ \A k \in DOMAIN ifs : k # j => ifs'[k] = ifs[k]
        /\ ifs'[j] = [ifs[j] EXCEPT !.elsePosition = pc + 1]
    BY <1>1, <2>1
  <2>4. /\ ifs'[j].ifPosition = ifs[j].ifPosition /\ ifs'[j].endifPosition = ifs[j].endifPosition
        /\ ifs'[j].elsePosition = pc + 1
    <3> DEFINE e == [ifs[j] EXCEPT !.elsePosition = pc + 1]
    <3>1. ifs[j] \in IfStatement BY <1>1
    <3>2. /\ e.ifPosition = ifs[j].ifPosition /\ e.endifPosition = ifs[j].endifPosition
          /\ e.elsePosition = pc + 1
      BY Zenon, <1>2, <3>1, EntryOK
    <3>3. ifs'[j] = e BY Zenon, <2>3
    <3> HIDE DEF e
    <3> QED BY Zenon, <3>2, <3>3
  <2>5. \A k \in DOMAIN ifs :
          /\ ifs'[k].ifPosition = ifs[k].ifPosition /\ ifs'[k].endifPosition = ifs[k].endifPosition
          /\ ifs'[k].elsePosition = IF k = j THEN pc + 1 ELSE ifs[k].elsePosition
    BY Zenon, <2>3, <2>4
  <2> QED BY Zenon, <1>1, <1>4, <2>2, <2>3, <2>5, PassElse
<1>5. CASE /\ Is(script[pc], FUNCTION_ENDIF)
           /\ \E j \in DOMAIN ifs : /\ IsOpen(EndifPlaces, j)
                                    /\ ifs' = [ifs EXCEPT ![j].endifPosition = pc + 1]
  <2>1. PICK j \in DOMAIN ifs : /\ IsOpen(EndifPlaces, j)
                                /\ ifs' = [ifs EXCEPT ![j].endifPosition = pc + 1]
    BY Zenon, <1>5
  <2>2. ifs[j].endifPosition = NotFound /\ \A k \in j + 1..Len(ifs) : ifs[k].endifPosition # NotFound
    <3>1. \A k \in DOMAIN ifs : EndifPlaces[k] = ifs[k].endifPosition BY Zenon DEF EndifPlaces
    <3>2. \A k \in j + 1..Len(ifs) : k \in DOMAIN ifs BY <1>2
    <3> QED BY Zenon, <2>1, <3>1, <3>2 DEF IsOpen
  <2>3. /\ DOMAIN ifs' = DOMAIN ifs /\ \A k \in DOMAIN ifs : k # j => ifs'[k] = ifs[k]
        /\ ifs'[j] = [ifs[j] EXCEPT !.endifPosition = pc + 1]
    BY <1>1, <2>1
  <2>4. /\ ifs'[j].ifPosition = ifs[j].ifPosition /\ ifs'[j].elsePosition = ifs[j].elsePosition
        /\ ifs'[j].endifPosition = pc + 1
    <3> DEFINE e == [ifs[j] EXCEPT !.endifPosition = pc + 1]
    <3>1. ifs[j] \in IfStatement BY <1>1
    <3>2. /\ e.ifPosition = ifs[j].ifPosition /\ e.elsePosition = ifs[j].elsePosition
          /\ e.endifPosition = pc + 1
      BY Zenon, <1>2, <3>1, EntryOK
    <3>3. ifs'[j] = e BY Zenon, <2>3
    <3> HIDE DEF e
    <3> QED BY Zenon, <3>2, <3>3
  <2>5. \A k \in DOMAIN ifs :
          /\ ifs'[k].ifPosition = ifs[k].ifPosition /\ ifs'[k].elsePosition = ifs[k].elsePosition
          /\ ifs'[k].endifPosition = IF k = j THEN pc + 1 ELSE ifs[k].endifPosition
    BY Zenon, <2>3, <2>4
  <2> QED BY Zenon, <1>1, <1>5, <2>2, <2>3, <2>5, PassEndif
<1>6. CASE /\ \A f \in {FUNCTION_IF, FUNCTION_ELSE, FUNCTION_ENDIF} : ~Is(script[pc], f)
           /\ ifs' = ifs
  BY Zenon, <1>1, <1>6, PassPlain
<1> QED BY Zenon, <1>3, <1>4, <1>5, <1>6 DEF parseFileForIFStatements

\* At the end of a balanced script no IF is open.
LEMMA PassEnds ==
  ASSUME ScriptInv, Counted, Balanced, PassOK(ifs, pc - 1), ParseDone
  PROVE  ListShape(ifs) /\ Recorded(ifs, Len(script)) /\ RunShape(ifs, 1, 0)
<1>1. /\ script \in Seq(Seq(LineArgument)) /\ Len(script) \in Nat
      /\ DOMAIN script = 1..Len(script) /\ pc \in 1..Len(script) + 1
      /\ \A k \in 0..Len(script) : Depth(k) \in Int
  BY Zenon, ListFacts DEF ScriptInv
<1>2. pc - 1 = Len(script)
  <2>1. pc \notin DOMAIN script BY Zenon DEF ParseDone
  <2> QED BY <1>1, <2>1
<1>3. PassOK(ifs, Len(script)) BY Zenon, <1>2
<1>4. Depth(Len(script)) = 0
  <2>1. /\ 1 \in Nat /\ Len(script) \in Nat /\ 1 <= 1 /\ 1 <= Len(script) + 1 /\ 1 - 1 = 0
    BY <1>1
  <2>2. Level(1, Len(script)) BY Zenon DEF Balanced
  <2>3. Depth(Len(script)) = Depth(1 - 1) BY Zenon, <2>1, <2>2, LevelIs
  <2> QED BY Zenon, <1>1, <2>1, <2>3, DepthSteps
<1>5. ASSUME NEW j \in DOMAIN ifs
      PROVE  ifs[j].endifPosition # NotFound /\ 1 <= IfLine(ifs[j]) /\ ~(IfLine(ifs[j]) < 1)
  <2>1. IfLine(ifs[j]) \in IfLines BY Zenon, <1>3, <1>5 DEF PassOK, ListShape, Genuine
  <2>2. IfLine(ifs[j]) \in 1..Len(script) BY Zenon, <1>1, <2>1 DEF IfLines
  <2>3. 1 <= IfLine(ifs[j]) /\ ~(IfLine(ifs[j]) < 1) BY ONLY <1>1, <2>2
  <2>4. /\ Depth(IfLine(ifs[j]) - 1) >= 0
        /\ ifs[j].endifPosition = NotFound =>
             \A k \in IfLine(ifs[j])..Len(script) : Depth(k) > Depth(IfLine(ifs[j]) - 1)
    BY Zenon, <1>3, <1>5 DEF PassOK, Opened
  <2>5. /\ IfLine(ifs[j]) - 1 \in 0..Len(script) /\ Len(script) \in IfLine(ifs[j])..Len(script)
    BY ONLY <1>1, <2>2
  <2>6. Depth(IfLine(ifs[j]) - 1) \in Int BY Zenon, <1>1, <2>5
  <2>7. ~(0 > Depth(IfLine(ifs[j]) - 1)) BY ONLY <2>4, <2>6
  <2> QED BY Zenon, <1>4, <2>3, <2>4, <2>5, <2>7
<1> QED BY Zenon, <1>3, <1>5 DEF PassOK, RunShape

\* What a flag that is set changes.
LEMMA FlagSet ==
  ASSUME ScriptTypeOK, Counted, NEW j \in DOMAIN ifs, NEW b \in BOOLEAN,
         ifs' = [ifs EXCEPT ![j].validAssertion = b]
  PROVE  /\ DOMAIN ifs' = DOMAIN ifs
         /\ \A k \in DOMAIN ifs : k # j => ifs'[k] = ifs[k]
         /\ ifs'[j].validAssertion = b
<1>1. ifs \in Seq(IfStatement) BY DEF ScriptTypeOK
<1>2. ifs[j] \in IfStatement BY <1>1
<1>3. [ifs[j] EXCEPT !.validAssertion = b].validAssertion = b BY <1>2 DEF IfStatement
<1>4. /\ DOMAIN ifs' = DOMAIN ifs /\ \A k \in DOMAIN ifs : k # j => ifs'[k] = ifs[k]
      /\ ifs'[j] = [ifs[j] EXCEPT !.validAssertion = b]
  BY <1>1
<1> QED BY Zenon, <1>3, <1>4

\* The marks of a list are its places.
LEMMA SameMarks ==
  ASSUME NEW list, DOMAIN list = DOMAIN ifs,
         \A k \in DOMAIN ifs : /\ list[k].ifPosition = ifs[k].ifPosition
                               /\ list[k].elsePosition = ifs[k].elsePosition
                               /\ list[k].endifPosition = ifs[k].endifPosition
  PROVE  /\ ListShape(ifs) => ListShape(list)
         /\ \A n : Recorded(ifs, n) => Recorded(list, n)
<1>1. \A k \in DOMAIN ifs : IfLine(list[k]) = IfLine(ifs[k]) BY Zenon DEF IfLine
<1>2. ASSUME ListShape(ifs) PROVE ListShape(list)
  <2>1. \A k \in DOMAIN list : Genuine(list[k])
    BY Zenon, <1>1, <1>2 DEF ListShape, Genuine
  <2>2. ASSUME NEW i \in DOMAIN list, NEW k \in DOMAIN list, i < k
        PROVE  IfLine(list[i]) < IfLine(list[k])
    <3>1. IfLine(list[i]) = IfLine(ifs[i]) /\ IfLine(list[k]) = IfLine(ifs[k]) BY Zenon, <1>1, <2>2
    <3> QED BY Zenon, <1>2, <2>2, <3>1 DEF ListShape
  <2>3. \A i, k \in DOMAIN list :
          list[i].elsePosition = list[k].elsePosition /\ list[i].elsePosition # NotFound => i = k
    BY Zenon, <1>2 DEF ListShape
  <2> QED BY Zenon, <2>1, <2>2, <2>3 DEF ListShape
<1>3. ASSUME NEW n, Recorded(ifs, n) PROVE Recorded(list, n)
  BY Zenon, <1>1, <1>3 DEF Recorded
<1> QED BY Zenon, <1>2, <1>3

\* What the invariant says of the run.
RunOK == ListShape(ifs) /\ Recorded(ifs, Len(script)) /\ RunShape(ifs, pc, ifEntry)

\* The IFs of a script that runs are closed, and in the list.
LEMMA IfsClosed ==
  ASSUME ScriptInv, Counted, status = "run", RunOK
  PROVE  /\ \A k \in DOMAIN ifs :
              /\ IfLine(ifs[k]) \in IfLines
              /\ ifs[k].endifPosition - 1 = EndifOf(IfLine(ifs[k])) /\ ifs[k].endifPosition \in Nat
              /\ ifs[k].elsePosition # NotFound =>
                   ifs[k].elsePosition - 1 \in ElsesOf(IfLine(ifs[k]))
              /\ ifs[k].elsePosition = NotFound => ElsesOf(IfLine(ifs[k])) = {}
         /\ \A n \in IfLines : /\ ClosedAt(n, EndifOf(n)) /\ EndifOf(n) \in DOMAIN script
                               /\ \E k \in DOMAIN ifs : IfLine(ifs[k]) = n
<1>1. /\ script \in Seq(Seq(LineArgument)) /\ Len(script) \in Nat /\ DOMAIN script = 1..Len(script)
      /\ \A k \in DOMAIN ifs : ifs[k].endifPosition \in Nat \cup {NotFound}
  BY Zenon, ListFacts DEF ScriptInv
<1>2. ASSUME NEW k \in DOMAIN ifs
      PROVE  /\ IfLine(ifs[k]) \in IfLines
             /\ ClosedAt(IfLine(ifs[k]), ifs[k].endifPosition - 1)
             /\ ifs[k].endifPosition - 1 = EndifOf(IfLine(ifs[k])) /\ ifs[k].endifPosition \in Nat
             /\ ifs[k].elsePosition # NotFound =>
                  ifs[k].elsePosition - 1 \in ElsesOf(IfLine(ifs[k]))
             /\ ifs[k].elsePosition = NotFound => ElsesOf(IfLine(ifs[k])) = {}
  <2>1. ifs[k].endifPosition # NotFound BY Zenon, <1>2 DEF RunOK, RunShape
  <2>2. /\ IfLine(ifs[k]) \in IfLines
        /\ ClosedAt(IfLine(ifs[k]), ifs[k].endifPosition - 1)
        /\ ifs[k].elsePosition # NotFound => ifs[k].elsePosition - 1 \in ElsesOf(IfLine(ifs[k]))
    BY Zenon, <1>2, <2>1 DEF RunOK, ListShape, Genuine
  <2>3. IfLine(ifs[k]) \in DOMAIN script BY Zenon, <2>2 DEF IfLines
  <2>4. ifs[k].endifPosition - 1 = EndifOf(IfLine(ifs[k])) BY Zenon, <1>1, <2>2, <2>3, EndifIs
  <2>5. ASSUME ifs[k].elsePosition = NotFound, NEW m \in ElsesOf(IfLine(ifs[k])) PROVE FALSE
    <3>1. m > Len(script) BY Zenon, <1>2, <2>5 DEF RunOK, Recorded
    <3>2. m \in 1..Len(script) BY Zenon, <1>1, <2>2, <2>5, ElseFacts
    <3> QED BY ONLY <1>1, <3>1, <3>2
  <2>6. ifs[k].endifPosition \in Nat BY Zenon, <1>1, <1>2, <2>1
  <2> QED BY Zenon, <2>2, <2>4, <2>5, <2>6
<1>3. ASSUME NEW n \in IfLines
      PROVE  /\ ClosedAt(n, EndifOf(n)) /\ EndifOf(n) \in DOMAIN script
             /\ \E k \in DOMAIN ifs : IfLine(ifs[k]) = n
  <2>1. n \in DOMAIN script /\ Is(script[n], FUNCTION_IF) BY Zenon, <1>3 DEF IfLines
  <2>2. n < Len(script) + 1 /\ n \in Int BY <1>1, <2>1
  <2>3. PICK k \in DOMAIN ifs : ifs[k].ifPosition = n + 1
    BY Zenon, <2>1, <2>2 DEF ScriptInv, ListInv, ListedBelow
  <2>4. (n + 1) - 1 = n BY ONLY <2>2
  <2>5. IfLine(ifs[k]) = n BY Zenon, <2>3, <2>4 DEF IfLine
  <2>6. ClosedAt(n, EndifOf(n)) BY Zenon, <1>2, <2>5
  <2> QED BY Zenon, <2>5, <2>6 DEF ClosedAt
<1> QED BY Zenon, <1>2, <1>3

\* An IF inside another ends before it does.
LEMMA InnerEnds ==
  ASSUME ScriptTypeOK, Counted, NEW a \in IfLines, NEW b \in IfLines, NEW m, NEW p,
         ClosedAt(a, m), ClosedAt(b, p), a < b, b <= m
  PROVE  p < m
<1>1. /\ script \in Seq(Seq(LineArgument)) /\ Len(script) \in Nat /\ DOMAIN script = 1..Len(script)
      /\ \A k \in 0..Len(script) : Depth(k) \in Int
  BY Zenon, ListFacts
<1>2. /\ a \in 1..Len(script) /\ b \in 1..Len(script) /\ m \in 1..Len(script) /\ p \in 1..Len(script)
      /\ b < p
  BY Zenon, <1>1 DEF IfLines, ClosedAt
<1>3. b # m BY Zenon, KindsApart DEF IfLines, ClosedAt
<1>4. b - 1 \in a..m - 1 /\ b - 1 \in 0..Len(script) /\ Len(script) \in Nat
  BY ONLY <1>1, <1>2, <1>3, a < b, b <= m
<1>5. Depth(b - 1) > Depth(a - 1) /\ Depth(m) = Depth(a - 1) /\ Depth(p) = Depth(b - 1)
  BY Zenon, <1>4 DEF ClosedAt
<1>6. Depth(m) \in Int /\ Depth(b - 1) \in Int
  <2>1. m \in 0..Len(script) BY ONLY <1>2, <1>4
  <2> QED BY Zenon, <1>1, <1>4, <2>1
<1>7. m # p /\ ~(Depth(m) > Depth(b - 1))
  <2>1. ~(Depth(m) > Depth(b - 1)) /\ Depth(m) # Depth(b - 1) BY ONLY <1>5, <1>6
  <2> QED BY Zenon, <1>5, <2>1
<1>8. m \notin b..p - 1 BY Zenon, <1>7 DEF ClosedAt
<1> QED BY ONLY <1>2, <1>3, <1>4, <1>7, <1>8, b <= m

\* An IF that begins before the ELSE of one that it is inside ends before that ELSE.
LEMMA InnerEndsByElse ==
  ASSUME ScriptTypeOK, Counted, NEW a \in IfLines, NEW b \in IfLines, NEW m, NEW p, NEW e \in ElsesOf(a),
         ClosedAt(a, m), EndifOf(a) = m, ClosedAt(b, p), a < b, b <= e
  PROVE  p < e
<1>1. /\ script \in Seq(Seq(LineArgument)) /\ Len(script) \in Nat /\ DOMAIN script = 1..Len(script)
      /\ \A k \in 0..Len(script) : Depth(k) \in Int
  BY Zenon, ListFacts
<1>2. /\ a \in 1..Len(script) /\ b \in 1..Len(script) /\ m \in 1..Len(script) /\ p \in 1..Len(script)
      /\ b < p
  BY Zenon, <1>1 DEF IfLines, ClosedAt
<1>3. /\ e \in 1..Len(script) /\ e <= m /\ Is(script[e], FUNCTION_ELSE) /\ Depth(e) = Depth(a)
  BY Zenon, <1>1, ElseFacts
<1>4. b # e /\ e # p BY Zenon, <1>3, KindsApart DEF IfLines, ClosedAt
<1>5. b - 1 \in a..m - 1 /\ b - 1 \in 0..Len(script) /\ a - 1 \in 0..Len(script) /\ Len(script) \in Nat
  <2>1. /\ Len(script) \in Nat /\ e \in 1..Len(script) /\ e <= m /\ a < b /\ b <= e
    BY Zenon, <1>1, <1>3
  <2> QED BY ONLY <1>2, <1>4, <2>1
<1>6. Depth(b - 1) > Depth(a - 1) BY Zenon, <1>5 DEF ClosedAt
<1>7. Depth(a) = Depth(a - 1) + 1 BY Zenon, <1>1, DepthSteps DEF IfLines
<1>8. Depth(a - 1) \in Int /\ Depth(b - 1) \in Int BY Zenon, <1>1, <1>5
<1>9. ~(Depth(e) > Depth(b - 1)) BY ONLY <1>3, <1>6, <1>7, <1>8
<1>10. e \notin b..p - 1 BY Zenon, <1>9 DEF ClosedAt
<1> QED BY ONLY <1>2, <1>3, <1>4, <1>5, <1>10, b <= e

\* A step forward that leaves no IF which begins on its way keeps the flags in order.
LEMMA FlagsKept ==
  ASSUME ScriptInv, Counted, status = "run", RunOK, NEW q \in Nat, pc < q,
         \A b \in IfLines : pc < b /\ b < q => EndifOf(b) < q,
         NEW k \in DOMAIN ifs, IfLine(ifs[k]) # pc, IfLine(ifs[k]) < q, q < ifs[k].elsePosition
  PROVE  ifs[k].validAssertion
<1> DEFINE at == IfLine(ifs[k])
<1>1. /\ script \in Seq(Seq(LineArgument)) /\ Len(script) \in Nat /\ DOMAIN script = 1..Len(script)
      /\ pc \in 1..Len(script) + 1 /\ ifs[k].elsePosition \in Nat \cup {NotFound}
  BY Zenon, ListFacts DEF ScriptInv
<1>2. at \in IfLines /\ EndifOf(at) \in DOMAIN script BY Zenon, IfsClosed
<1>3. at \in 1..Len(script) BY Zenon, <1>1, <1>2 DEF IfLines
<1>4. ifs[k].elsePosition # NotFound BY ONLY q \in Nat, q < ifs[k].elsePosition DEF NotFound
<1>5. ifs[k].elsePosition - 1 \in ElsesOf(at) BY Zenon, <1>4, IfsClosed
<1>6. ifs[k].elsePosition - 1 <= EndifOf(at) BY Zenon, <1>1, <1>2, <1>5, ElseFacts
<1>7. EndifOf(at) \in 1..Len(script) /\ ifs[k].elsePosition \in Nat BY Zenon, <1>1, <1>2, <1>4
<1>8. ~(EndifOf(at) < q)
  BY ONLY <1>6, <1>7, q \in Nat, q < ifs[k].elsePosition, <1>1
<1>9. ~(pc < at) BY Zenon, <1>2, <1>8
<1> HIDE DEF at
<1>10. at < pc /\ pc < ifs[k].elsePosition
  <2>1. at # pc /\ q < ifs[k].elsePosition /\ pc < q BY Zenon DEF at
  <2> QED BY ONLY <1>1, <1>3, <1>7, <1>9, <2>1, q \in Nat
<1> QED BY Zenon, <1>10 DEF at, RunOK, RunShape

\* A line that goes on behind itself begins no other.
LEMMA NextLine ==
  ASSUME ScriptInv, Counted, pc \in DOMAIN script
  PROVE  /\ pc + 1 \in Nat /\ pc < pc + 1 /\ pc + 1 # NotFound
         /\ \A b \in IfLines : ~(pc < b /\ b < pc + 1)
         /\ \A b \in IfLines : pc < b /\ b < pc + 1 => EndifOf(b) < pc + 1
<1>1. Len(script) \in Nat /\ DOMAIN script = 1..Len(script) BY Zenon, ListFacts DEF ScriptInv
<1>2. \A b \in IfLines : b \in 1..Len(script) BY Zenon, <1>1 DEF IfLines
<1>3. pc \in 1..Len(script) BY Zenon, <1>1
<1>4. pc + 1 \in Nat /\ pc < pc + 1 /\ pc + 1 # NotFound BY ONLY <1>1, <1>3 DEF NotFound
<1>5. \A b \in 1..Len(script) : ~(pc < b /\ b < pc + 1) BY ONLY <1>1, <1>3
<1> QED BY Zenon, <1>2, <1>4, <1>5

\* A line that is no IF and goes on behind itself.
LEMMA StraightOn ==
  ASSUME ScriptInv, Counted, status = "run", RunOK, pc \in DOMAIN script, ~Is(script[pc], FUNCTION_IF)
  PROVE  RunShape(ifs, pc + 1, ifEntry)
<1>1. /\ pc + 1 \in Nat /\ pc < pc + 1
      /\ \A b \in IfLines : pc < b /\ b < pc + 1 => EndifOf(b) < pc + 1
  BY Zenon, NextLine
<1>2. ASSUME NEW k \in DOMAIN ifs
      PROVE  /\ ifs[k].endifPosition # NotFound
             /\ IfLine(ifs[k]) < pc + 1 /\ pc + 1 < ifs[k].elsePosition => ifs[k].validAssertion
             /\ ifEntry = 0 => pc + 1 <= IfLine(ifs[k]) \/ pc + 1 >= ifs[k].endifPosition
  <2>1. IfLine(ifs[k]) \in IfLines /\ ifs[k].endifPosition \in Nat BY Zenon, <1>2, IfsClosed
  <2>2. IfLine(ifs[k]) # pc BY Zenon, <2>1 DEF IfLines
  <2>3. IfLine(ifs[k]) < pc + 1 /\ pc + 1 < ifs[k].elsePosition => ifs[k].validAssertion
    BY Zenon, <1>1, <1>2, <2>2, FlagsKept
  <2>4. /\ ifs[k].endifPosition # NotFound
        /\ ifEntry = 0 => pc <= IfLine(ifs[k]) \/ pc >= ifs[k].endifPosition
    BY Zenon, <1>2 DEF RunOK, RunShape
  <2>5. pc <= IfLine(ifs[k]) \/ pc >= ifs[k].endifPosition
          => pc + 1 <= IfLine(ifs[k]) \/ pc + 1 >= ifs[k].endifPosition
    <3>1. IfLine(ifs[k]) \in Int /\ pc \in Nat
      <4>1. DOMAIN script = 1..Len(script) /\ Len(script) \in Nat BY Zenon, ListFacts DEF ScriptInv
      <4>2. pc \in Nat BY ONLY <4>1, pc \in DOMAIN script
      <4> QED BY Zenon, <1>2, <4>2, ListFacts DEF ScriptInv
    <3> QED BY ONLY <2>1, <2>2, <3>1
  <2> QED BY Zenon, <2>3, <2>4, <2>5
<1> QED BY Zenon, <1>2 DEF RunShape

\* A walk over the list finds what is there.
LEMMA StopsThere ==
  ASSUME DOMAIN ifs = 1..Len(ifs), Len(ifs) \in Nat, NEW from \in Nat, NEW places, NEW place,
         NEW j, StopsAt(from, places, place, j), NEW k \in DOMAIN ifs, from <= k, places[k] = place
  PROVE  places[j] = place
<1> SUFFICES ASSUME places[j] # place PROVE FALSE
  OBVIOUS
<1>1. j \in DOMAIN ifs /\ j = Len(ifs) /\ \A i \in from..j - 1 : places[i] # place BY Zenon DEF StopsAt
<1>2. k # j BY Zenon
<1>3. k \in from..j - 1 BY ONLY <1>1, <1>2, DOMAIN ifs = 1..Len(ifs), Len(ifs) \in Nat,
                             k \in DOMAIN ifs, from <= k, from \in Nat
<1> QED BY Zenon, <1>1, <1>3

\* A line leads where the nesting says, and leaves the list in order.
LedOn ==
  /\ script' = script /\ status' = "run" /\ pc' = Successor
  /\ ListShape(ifs') /\ Recorded(ifs', Len(script)) /\ RunShape(ifs', pc', ifEntry')

\* The lines that do not move the control.
LEMMA PlainLeads ==
  ASSUME ScriptInv, Counted, AtLine, RunOK, GoesOn(pc + 1), UNCHANGED <<ifs, ifEntry>>,
         \A f \in {FUNCTION_IF, FUNCTION_ELSE, FUNCTION_GOTO} : ~Is(script[pc], f)
  PROVE  LedOn
<1>1. status = "run" /\ pc \in DOMAIN script BY Zenon DEF AtLine
<1>2. pc + 1 # NotFound BY Zenon, <1>1, NextLine
<1>3. script' = script /\ status' = "run" /\ pc' = pc + 1 BY Zenon, <1>1, <1>2 DEF GoesOn
<1>4. ~Is(script[pc], FUNCTION_IF) /\ ~Is(script[pc], FUNCTION_ELSE) /\ ~Is(script[pc], FUNCTION_GOTO)
  BY Zenon
<1>5. Successor = pc + 1 BY Zenon, <1>4 DEF Successor
<1>6. RunShape(ifs, pc + 1, ifEntry) BY Zenon, <1>1, <1>4, StraightOn
<1>7. ifs' = ifs /\ ifEntry' = ifEntry OBVIOUS
<1> QED BY Zenon, <1>3, <1>5, <1>6, <1>7 DEF RunOK, LedOn

\* An IF finds its entry, and goes behind itself, behind its ELSE or behind its ENDIF.
LEMMA IfLeads ==
  ASSUME ScriptInv, Counted, Balanced, RunOK, RunIf
  PROVE  LedOn
<1> DEFINE holds == ifFunction(args'[2].value, args'[3].value, args'[4].value)
<1>1. status = "run" /\ pc \in DOMAIN script /\ Is(script[pc], FUNCTION_IF) /\ ScriptTypeOK
  BY Zenon DEF RunIf, Executes, AtLine, ScriptInv
<1>2. /\ script \in Seq(Seq(LineArgument)) /\ Len(script) \in Nat /\ DOMAIN script = 1..Len(script)
      /\ Len(ifs) \in Nat /\ DOMAIN ifs = 1..Len(ifs)
      /\ \A k \in DOMAIN ifs : ifs[k].ifPosition \in Nat /\ ifs[k].elsePosition \in Nat \cup {NotFound}
  BY Zenon, <1>1, ListFacts
<1>3. holds \in BOOLEAN BY DEF ifFunction
<1>4. Successor = IF ~holds THEN Min(ElsesOf(pc) \cup {EndifOf(pc)}) + 1 ELSE pc + 1
  BY Zenon, <1>1, KindsApart DEF Successor
<1>5. PICK j \in DOMAIN ifs :
        /\ StopsAt(1, IfPlaces, pc + 1, j) /\ ifEntry' = j
        /\ ifs' = [ifs EXCEPT ![j].validAssertion = holds]
        /\ GoesOn(IF holds THEN pc + 1
                  ELSE IF ifs[j].elsePosition # NotFound THEN ifs[j].elsePosition
                                                         ELSE ifs[j].endifPosition)
  BY Zenon DEF RunIf
<1> HIDE DEF holds
<1>6. pc \in IfLines /\ pc \in 1..Len(script) BY Zenon, <1>1, <1>2 DEF IfLines
<1>7. IfLine(ifs[j]) = pc
  <2>1. PICK k \in DOMAIN ifs : IfLine(ifs[k]) = pc BY Zenon, <1>1, <1>6, IfsClosed
  <2>2. ifs[k].ifPosition = pc + 1 /\ 1 <= k /\ 1 \in Nat
    BY ONLY <1>2, <1>6, <2>1, k \in DOMAIN ifs DEF IfLine
  <2>3. \A i \in DOMAIN ifs : IfPlaces[i] = ifs[i].ifPosition BY Zenon DEF IfPlaces
  <2>7. /\ DOMAIN ifs = 1..Len(ifs) /\ Len(ifs) \in Nat /\ StopsAt(1, IfPlaces, pc + 1, j)
        /\ IfPlaces[k] = pc + 1 /\ k \in DOMAIN ifs
    BY Zenon, <1>2, <1>5, <2>1, <2>2, <2>3
  <2>4. IfPlaces[j] = pc + 1 BY ONLY Zenon, <2>2, <2>7, StopsThere
  <2>5. ifs[j].ifPosition = pc + 1 BY Zenon, <2>3, <2>4
  <2>6. (pc + 1) - 1 = pc BY ONLY <1>2, <1>6
  <2> QED BY Zenon, <2>5, <2>6 DEF IfLine
<1>8. /\ ifs[j].endifPosition - 1 = EndifOf(pc) /\ ifs[j].endifPosition \in Nat
      /\ ifs[j].elsePosition # NotFound => ifs[j].elsePosition - 1 \in ElsesOf(pc)
      /\ ifs[j].elsePosition = NotFound => ElsesOf(pc) = {}
      /\ ClosedAt(pc, EndifOf(pc)) /\ EndifOf(pc) \in 1..Len(script) /\ pc < EndifOf(pc)
  BY Zenon, <1>1, <1>2, <1>6, <1>7, IfsClosed DEF ClosedAt
<1>9. /\ DOMAIN ifs' = DOMAIN ifs /\ \A k \in DOMAIN ifs : k # j => ifs'[k] = ifs[k]
      /\ ifs'[j].validAssertion = holds
  BY Zenon, <1>1, <1>3, <1>5, FlagSet
<1>10. \A k \in DOMAIN ifs : /\ ifs'[k].ifPosition = ifs[k].ifPosition
                             /\ ifs'[k].elsePosition = ifs[k].elsePosition
                             /\ ifs'[k].endifPosition = ifs[k].endifPosition
  BY Zenon, <1>1, <1>3, <1>5, AssertionOK
<1>11. ListShape(ifs') /\ Recorded(ifs', Len(script))
  BY Zenon, <1>9, <1>10, SameMarks DEF RunOK
<1>12. script' = script /\ status' = "run" BY Zenon, <1>1, <1>5 DEF GoesOn
<1>13. \A k \in DOMAIN ifs : k # j => IfLine(ifs[k]) # pc
  <2> SUFFICES ASSUME NEW k \in DOMAIN ifs, k # j, IfLine(ifs[k]) = pc PROVE FALSE
    OBVIOUS
  <2>1. k < j \/ j < k BY ONLY <1>2, k \in DOMAIN ifs, j \in DOMAIN ifs, k # j
  <2>2. pc < pc BY Zenon, <1>7, <2>1 DEF RunOK, ListShape
  <2> QED BY ONLY <1>2, <1>6, <2>2
<1>14. ASSUME pc' \in Nat, pc < pc', \A b \in IfLines : pc < b /\ b < pc' => EndifOf(b) < pc',
              pc' < ifs[j].elsePosition => holds
       PROVE  RunShape(ifs', pc', ifEntry')
  <2>1. ASSUME NEW k \in DOMAIN ifs'
        PROVE  /\ ifs'[k].endifPosition # NotFound
               /\ IfLine(ifs'[k]) < pc' /\ pc' < ifs'[k].elsePosition => ifs'[k].validAssertion
               /\ ifEntry' # 0
    <3>1. IfLine(ifs'[k]) = IfLine(ifs[k]) BY Zenon, <1>9, <1>10, <2>1 DEF IfLine
    <3>2. ifs'[k].endifPosition # NotFound
      BY Zenon, <1>9, <1>10, <2>1 DEF RunOK, RunShape
    <3>3. ifEntry' # 0 BY ONLY <1>2, <1>5, j \in DOMAIN ifs
    <3>4. CASE k = j BY Zenon, <1>9, <1>10, <1>14, <3>2, <3>3, <3>4
    <3>5. CASE k # j
      <4>1. IfLine(ifs[k]) < pc' /\ pc' < ifs[k].elsePosition => ifs[k].validAssertion
        BY Zenon, <1>1, <1>9, <1>13, <1>14, <2>1, <3>5, FlagsKept
      <4>2. ifs'[k] = ifs[k] BY Zenon, <1>9, <2>1, <3>5
      <4> QED BY Zenon, <3>2, <3>3, <4>1, <4>2
    <3> QED BY <3>4, <3>5
  <2> QED BY Zenon, <2>1 DEF RunShape
<1>15. CASE holds
  <2>1. pc' = pc + 1 BY Zenon, <1>1, <1>5, <1>15, NextLine DEF GoesOn
  <2>2. Successor = pc + 1 BY Zenon, <1>4, <1>15
  <2>3. RunShape(ifs', pc', ifEntry') BY Zenon, <1>1, <1>14, <1>15, <2>1, NextLine
  <2> QED BY Zenon, <1>11, <1>12, <2>1, <2>2, <2>3 DEF LedOn
<1>16. CASE ~holds /\ ifs[j].elsePosition # NotFound
  <2> DEFINE e == ifs[j].elsePosition - 1
  <2>1. ifs[j].elsePosition \in Nat /\ e \in ElsesOf(pc) BY Zenon, <1>2, <1>8, <1>16
  <2>2. e \in 1..Len(script) /\ pc < e /\ e <= EndifOf(pc) BY Zenon, <1>2, <1>6, <2>1, ElseFacts
  <2>3. pc' = ifs[j].elsePosition BY Zenon, <1>5, <1>16 DEF GoesOn
  <2>4. Min(ElsesOf(pc) \cup {EndifOf(pc)}) = e
    <3>1. \A k \in ElsesOf(pc) : k = e BY Zenon, <1>2, <1>6, <2>1, ElsesOnce
    <3> HIDE DEF e
    <3>2. /\ ElsesOf(pc) \cup {EndifOf(pc)} \subseteq Int /\ e \in ElsesOf(pc) \cup {EndifOf(pc)}
          /\ \A k \in ElsesOf(pc) \cup {EndifOf(pc)} : e <= k
      <4>1. \A k \in ElsesOf(pc) \cup {EndifOf(pc)} : k = e \/ k = EndifOf(pc) BY Zenon, <3>1
      <4>2. e \in Int /\ EndifOf(pc) \in Int /\ e <= e /\ e <= EndifOf(pc) BY ONLY <1>2, <1>8, <2>2
      <4> QED BY Zenon, <2>1, <4>1, <4>2
    <3> QED BY Zenon, <3>2, MinIs
  <2>5. e + 1 = ifs[j].elsePosition BY ONLY <2>1
  <2>6. pc' = Successor BY Zenon, <1>4, <1>16, <2>3, <2>4, <2>5
  <2>7. pc' \in Nat /\ pc < pc' /\ ~(pc' < ifs[j].elsePosition)
    BY ONLY <1>2, <1>6, <2>1, <2>2, <2>3
  <2>8. ASSUME NEW b \in IfLines, pc < b, b < pc' PROVE EndifOf(b) < pc'
    <3>1. ClosedAt(b, EndifOf(b)) /\ EndifOf(b) \in 1..Len(script) /\ b \in 1..Len(script)
      BY Zenon, <1>1, <1>2, <2>8, IfsClosed DEF IfLines
    <3>2. b <= e BY ONLY <1>2, <2>1, <2>3, <2>8, <3>1
    <3> HIDE DEF e
    <3>3. EndifOf(b) < e BY Zenon, <1>1, <1>6, <1>8, <2>1, <2>8, <3>1, <3>2, InnerEndsByElse
    <3> QED BY ONLY <1>2, <2>1, <2>2, <2>3, <2>5, <3>1, <3>3
  <2>9. RunShape(ifs', pc', ifEntry') BY Zenon, <1>14, <2>7, <2>8
  <2> QED BY Zenon, <1>11, <1>12, <2>6, <2>9 DEF LedOn
<1>17. CASE ~holds /\ ifs[j].elsePosition = NotFound
  <2>1. ifs[j].endifPosition # NotFound BY Zenon DEF RunOK, RunShape
  <2>2. pc' = ifs[j].endifPosition BY Zenon, <1>5, <1>17, <2>1 DEF GoesOn
  <2>3. Min(ElsesOf(pc) \cup {EndifOf(pc)}) = EndifOf(pc)
    <3>1. /\ ElsesOf(pc) \cup {EndifOf(pc)} \subseteq Int
          /\ EndifOf(pc) \in ElsesOf(pc) \cup {EndifOf(pc)}
          /\ \A k \in ElsesOf(pc) \cup {EndifOf(pc)} : EndifOf(pc) <= k
      BY ONLY <1>2, <1>8, <1>17
    <3> QED BY Zenon, <3>1, MinIs
  <2>4. EndifOf(pc) + 1 = ifs[j].endifPosition BY ONLY <1>8
  <2>5. pc' = Successor BY Zenon, <1>4, <1>17, <2>2, <2>3, <2>4
  <2>6. pc' \in Nat /\ pc < pc' /\ ~(pc' < ifs[j].elsePosition)
    BY ONLY <1>2, <1>6, <1>8, <1>17, <2>2, <2>4 DEF NotFound
  <2>7. ASSUME NEW b \in IfLines, pc < b, b < pc' PROVE EndifOf(b) < pc'
    <3>1. ClosedAt(b, EndifOf(b)) /\ EndifOf(b) \in 1..Len(script) /\ b \in 1..Len(script)
      BY Zenon, <1>1, <1>2, <2>7, IfsClosed DEF IfLines
    <3>2. b <= EndifOf(pc) BY ONLY <1>2, <1>8, <2>2, <2>4, <2>7, <3>1
    <3>3. EndifOf(b) < EndifOf(pc) BY Zenon, <1>1, <1>6, <1>8, <2>7, <3>1, <3>2, InnerEnds
    <3>4. /\ pc' = EndifOf(pc) + 1 /\ EndifOf(pc) \in 1..Len(script)
          /\ EndifOf(b) \in 1..Len(script)
      BY Zenon, <1>8, <2>2, <2>4, <3>1
    <3> QED BY ONLY <3>3, <3>4
  <2>8. RunShape(ifs', pc', ifEntry') BY Zenon, <1>14, <2>6, <2>7
  <2> QED BY Zenon, <1>11, <1>12, <2>5, <2>8 DEF LedOn
<1> QED BY Zenon, <1>15, <1>16, <1>17

\* An ELSE that is reached ends the first branch of its IF, and goes behind the ENDIF.
LEMMA ElseLeads ==
  ASSUME ScriptInv, Counted, Balanced, RunOK, RunElse
  PROVE  LedOn
<1> DEFINE n == CHOOSE n \in IfLines : pc \in ElsesOf(n)
<1>1. status = "run" /\ pc \in DOMAIN script /\ Is(script[pc], FUNCTION_ELSE) /\ ScriptTypeOK
  BY Zenon DEF RunElse, Executes, AtLine, ScriptInv
<1>2. /\ script \in Seq(Seq(LineArgument)) /\ Len(script) \in Nat /\ DOMAIN script = 1..Len(script)
      /\ Len(ifs) \in Nat /\ DOMAIN ifs = 1..Len(ifs)
      /\ \A k \in DOMAIN ifs : ifs[k].elsePosition \in Nat \cup {NotFound}
  BY Zenon, <1>1, ListFacts
<1>3. Successor = EndifOf(n) + 1 BY Zenon, <1>1, KindsApart DEF Successor
<1>4. n \in IfLines /\ pc \in ElsesOf(n) BY Zenon, <1>1 DEF Balanced
<1> HIDE DEF n
<1>5. PICK j \in DOMAIN ifs :
        /\ StopsAt(1, ElsePlaces, pc + 1, j) /\ ifEntry' = j
        /\ GoesOn(IF ifs[j].validAssertion THEN ifs[j].endifPosition ELSE pc + 1)
  BY Zenon DEF RunElse
<1>6. pc \in 1..Len(script) BY Zenon, <1>1, <1>2
<1>7. PICK k \in DOMAIN ifs : IfLine(ifs[k]) = n BY Zenon, <1>1, <1>4, IfsClosed
<1>8. ifs[k].elsePosition = pc + 1 /\ ifs[k].elsePosition # NotFound
  <2>1. ElsesOf(n) # {} BY Zenon, <1>4
  <2>2. ifs[k].elsePosition # NotFound /\ ifs[k].elsePosition - 1 \in ElsesOf(n)
    BY Zenon, <1>1, <1>7, <2>1, IfsClosed
  <2>3. ifs[k].elsePosition - 1 = pc BY Zenon, <1>2, <1>4, <2>2, ElsesOnce
  <2>4. ifs[k].elsePosition \in Nat BY Zenon, <1>2, <2>2
  <2>6. Len(script) \in Nat BY Zenon, <1>2
  <2>5. ifs[k].elsePosition = pc + 1 BY ONLY <1>6, <2>3, <2>4, <2>6
  <2> QED BY Zenon, <2>2, <2>5
<1>9. k = j
  <2>1. \A i \in DOMAIN ifs : ElsePlaces[i] = ifs[i].elsePosition BY Zenon DEF ElsePlaces
  <2>2. 1 \in Nat /\ 1 <= k BY ONLY <1>2, k \in DOMAIN ifs
  <2>3. /\ DOMAIN ifs = 1..Len(ifs) /\ Len(ifs) \in Nat /\ StopsAt(1, ElsePlaces, pc + 1, j)
        /\ ElsePlaces[k] = pc + 1 /\ k \in DOMAIN ifs
    BY Zenon, <1>2, <1>5, <1>8, <2>1
  <2>4. ElsePlaces[j] = pc + 1 BY ONLY Zenon, <2>2, <2>3, StopsThere
  <2>5. ifs[j].elsePosition = ifs[k].elsePosition BY Zenon, <1>8, <2>1, <2>4
  <2> QED BY Zenon, <1>8, <2>5 DEF RunOK, ListShape
<1>10. n < pc /\ pc <= EndifOf(n) /\ n \in 1..Len(script)
  BY Zenon, <1>2, <1>4, ElseFacts DEF IfLines
<1>11. ifs[j].validAssertion
  <2>1. pc < pc + 1 BY ONLY <1>2, <1>6
  <2> QED BY Zenon, <1>7, <1>8, <1>9, <1>10, <2>1 DEF RunOK, RunShape
<1>12. /\ ifs[j].endifPosition - 1 = EndifOf(n) /\ ifs[j].endifPosition \in Nat
       /\ ClosedAt(n, EndifOf(n)) /\ EndifOf(n) \in 1..Len(script)
       /\ ifs[j].endifPosition # NotFound
  BY Zenon, <1>1, <1>2, <1>4, <1>7, <1>9, IfsClosed DEF RunOK, RunShape
<1>13. /\ script' = script /\ status' = "run" /\ pc' = ifs[j].endifPosition /\ ifs' = ifs
  BY Zenon, <1>1, <1>5, <1>11, <1>12 DEF GoesOn, RunElse
<1>14. EndifOf(n) + 1 = ifs[j].endifPosition BY ONLY <1>12
<1>15. pc' = Successor BY Zenon, <1>3, <1>13, <1>14
<1>16. pc' \in Nat /\ pc < pc' BY ONLY <1>2, <1>6, <1>10, <1>12, <1>13, <1>14
<1>17. ASSUME NEW b \in IfLines, pc < b, b < pc' PROVE EndifOf(b) < pc'
  <2>1. ClosedAt(b, EndifOf(b)) /\ EndifOf(b) \in 1..Len(script) /\ b \in 1..Len(script)
    BY Zenon, <1>1, <1>2, <1>17, IfsClosed DEF IfLines
  <2>4. /\ pc < b /\ b < EndifOf(n) + 1 /\ n < pc /\ Len(script) \in Nat
        /\ {n, b, EndifOf(n), pc} \subseteq 1..Len(script)
    BY Zenon, <1>2, <1>6, <1>10, <1>12, <1>13, <1>14, <1>17, <2>1
  <2>2. b <= EndifOf(n) /\ n < b BY ONLY <2>4
  <2>3. EndifOf(b) < EndifOf(n) BY Zenon, <1>1, <1>4, <1>12, <1>17, <2>1, <2>2, InnerEnds
  <2>5. EndifOf(b) < EndifOf(n) + 1 BY ONLY <1>12, <2>1, <2>3, <2>4
  <2> QED BY Zenon, <1>13, <1>14, <2>5
<1>18. RunShape(ifs, pc', ifEntry')
  <2>1. ifEntry' # 0 BY ONLY <1>2, <1>5, j \in DOMAIN ifs
  <2>2. ASSUME NEW i \in DOMAIN ifs
        PROVE  /\ ifs[i].endifPosition # NotFound
               /\ IfLine(ifs[i]) < pc' /\ pc' < ifs[i].elsePosition => ifs[i].validAssertion
    <3>1. IfLine(ifs[i]) \in IfLines BY Zenon, <1>1, <2>2, IfsClosed
    <3>2. IfLine(ifs[i]) # pc BY Zenon, <1>1, <3>1, KindsApart DEF IfLines
    <3> QED BY Zenon, <1>1, <1>16, <1>17, <2>2, <3>2, FlagsKept DEF RunOK, RunShape
  <2> QED BY Zenon, <2>1, <2>2 DEF RunShape
<1> QED BY Zenon, <1>13, <1>15, <1>18 DEF RunOK, LedOn

\* The entry that an ENDIF finds is its own, or the last, which the ENDIF is not inside.
LEMMA EndifFinds ==
  ASSUME ScriptInv, Counted, status = "run", RunOK, pc \in DOMAIN script, Is(script[pc], FUNCTION_ENDIF),
         NEW j \in DOMAIN ifs, ifs[j].endifPosition = pc + 1 \/ j = Len(ifs)
  PROVE  ~(IfLine(ifs[j]) < pc + 1 /\ pc + 1 < ifs[j].elsePosition)
<1> SUFFICES ASSUME IfLine(ifs[j]) < pc + 1, pc + 1 < ifs[j].elsePosition PROVE FALSE
  OBVIOUS
<1> DEFINE n == IfLine(ifs[j])
<1>1. /\ script \in Seq(Seq(LineArgument)) /\ Len(script) \in Nat /\ DOMAIN script = 1..Len(script)
      /\ Len(ifs) \in Nat /\ DOMAIN ifs = 1..Len(ifs) /\ ScriptTypeOK
      /\ ifs[j].elsePosition \in Nat \cup {NotFound}
  BY Zenon, ListFacts DEF ScriptInv
<1>2. pc \in 1..Len(script) BY Zenon, <1>1
<1>3. /\ n \in IfLines /\ ifs[j].endifPosition - 1 = EndifOf(n) /\ ifs[j].endifPosition \in Nat
      /\ ClosedAt(n, EndifOf(n)) /\ EndifOf(n) \in 1..Len(script) /\ n \in 1..Len(script)
  BY Zenon, <1>1, IfsClosed DEF IfLines
<1>4. ifs[j].elsePosition # NotFound BY ONLY <1>1, <1>2, pc + 1 < ifs[j].elsePosition DEF NotFound
<1>5. ifs[j].elsePosition - 1 \in ElsesOf(n) /\ ifs[j].elsePosition \in Nat
  BY Zenon, <1>1, <1>4, IfsClosed
<1>6. ifs[j].elsePosition - 1 <= EndifOf(n) BY Zenon, <1>1, <1>3, <1>5, ElseFacts
<1> HIDE DEF n
<1>7. n < pc /\ pc < EndifOf(n) /\ ifs[j].endifPosition # pc + 1
  <2>1. n # pc BY Zenon, <1>3, KindsApart DEF IfLines
  <2>2. n < pc + 1 BY Zenon DEF n
  <2>3. /\ EndifOf(n) \in 1..Len(script) /\ n \in 1..Len(script) /\ Len(script) \in Nat
        /\ ifs[j].elsePosition \in Nat /\ ifs[j].endifPosition - 1 = EndifOf(n)
        /\ ifs[j].endifPosition \in Nat
    BY Zenon, <1>1, <1>3, <1>5
  <2>4. n < pc BY ONLY <1>2, <2>1, <2>2, <2>3
  <2>5. pc < EndifOf(n) BY ONLY <1>2, <1>6, <2>3, pc + 1 < ifs[j].elsePosition
  <2>6. ifs[j].endifPosition # pc + 1 BY ONLY <1>2, <2>3, <2>5
  <2> QED BY Zenon, <2>4, <2>5, <2>6
<1>8. PICK k \in DOMAIN ifs : ifs[k].endifPosition = pc + 1
  <2>1. pc <= Len(script) BY ONLY <1>1, <1>2
  <2> QED BY Zenon, <2>1 DEF RunOK, Recorded
<1> DEFINE m == IfLine(ifs[k])
<1>9. /\ m \in IfLines /\ ifs[k].endifPosition - 1 = EndifOf(m) /\ ClosedAt(m, EndifOf(m))
      /\ m \in 1..Len(script)
  BY Zenon, <1>1, IfsClosed DEF IfLines
<1>10. EndifOf(m) = pc
  <2>1. (pc + 1) - 1 = pc BY ONLY <1>1, <1>2
  <2> QED BY Zenon, <1>8, <1>9, <2>1
<1>11. k < j
  <2>1. k # j /\ j = Len(ifs) BY Zenon, <1>7, <1>8
  <2> QED BY ONLY <1>1, <2>1, k \in DOMAIN ifs
<1>12. m < n BY Zenon, <1>11 DEF RunOK, ListShape, n
<1> HIDE DEF m
<1>13. n <= pc BY ONLY <1>1, <1>2, <1>3, <1>7
<1>14. EndifOf(n) < pc BY Zenon, <1>1, <1>3, <1>9, <1>10, <1>12, <1>13, InnerEnds
<1> QED BY ONLY <1>1, <1>2, <1>3, <1>7, <1>14

\* An ENDIF goes on behind itself.
LEMMA EndifLeads ==
  ASSUME ScriptInv, Counted, RunOK, RunEndif
  PROVE  LedOn
<1>1. status = "run" /\ pc \in DOMAIN script /\ Is(script[pc], FUNCTION_ENDIF) /\ ScriptTypeOK
  BY Zenon DEF RunEndif, Executes, AtLine, ScriptInv
<1>2. Len(ifs) \in Nat /\ DOMAIN ifs = 1..Len(ifs) BY Zenon, <1>1, ListFacts
<1>3. Successor = pc + 1 BY Zenon, <1>1, KindsApart DEF Successor
<1>4. PICK j \in DOMAIN ifs :
        /\ StopsAt(ifEntry, EndifPlaces, pc + 1, j) /\ ifEntry' = j
        /\ ifs' = [ifs EXCEPT ![j].validAssertion = FALSE]
  BY Zenon DEF RunEndif
<1>5. ifs[j].endifPosition = pc + 1 \/ j = Len(ifs) BY Zenon, <1>4 DEF StopsAt, EndifPlaces
<1>6. ~(IfLine(ifs[j]) < pc + 1 /\ pc + 1 < ifs[j].elsePosition) BY Zenon, <1>1, <1>5, EndifFinds
<1>7. script' = script /\ status' = "run" /\ pc' = pc + 1
  BY Zenon, <1>1, NextLine DEF RunEndif, GoesOn
<1>8. FALSE \in BOOLEAN OBVIOUS
<1>9. DOMAIN ifs' = DOMAIN ifs /\ \A k \in DOMAIN ifs : k # j => ifs'[k] = ifs[k]
  BY Zenon, <1>1, <1>4, <1>8, FlagSet
<1>10. \A k \in DOMAIN ifs : /\ ifs'[k].ifPosition = ifs[k].ifPosition
                             /\ ifs'[k].elsePosition = ifs[k].elsePosition
                             /\ ifs'[k].endifPosition = ifs[k].endifPosition
  BY Zenon, <1>1, <1>4, <1>8, AssertionOK
<1>11. ListShape(ifs') /\ Recorded(ifs', Len(script))
  BY Zenon, <1>9, <1>10, SameMarks DEF RunOK
<1>12. RunShape(ifs', pc', ifEntry')
  <2>1. ifEntry' # 0 BY ONLY <1>2, <1>4, j \in DOMAIN ifs
  <2>2. ~Is(script[pc], FUNCTION_IF) BY Zenon, <1>1, KindsApart
  <2>3. RunShape(ifs, pc + 1, ifEntry) BY Zenon, <1>1, <2>2, StraightOn
  <2>4. ASSUME NEW k \in DOMAIN ifs'
        PROVE  /\ ifs'[k].endifPosition # NotFound
               /\ IfLine(ifs'[k]) < pc + 1 /\ pc + 1 < ifs'[k].elsePosition => ifs'[k].validAssertion
    <3>1. IfLine(ifs'[k]) = IfLine(ifs[k]) /\ ifs'[k].elsePosition = ifs[k].elsePosition
      BY Zenon, <1>9, <1>10, <2>4 DEF IfLine
    <3>2. ifs'[k].endifPosition # NotFound BY Zenon, <1>9, <1>10, <2>3, <2>4 DEF RunShape
    <3>3. CASE k = j BY Zenon, <1>6, <3>1, <3>2, <3>3
    <3>4. CASE k # j BY Zenon, <1>9, <2>3, <2>4, <3>2, <3>4 DEF RunShape
    <3> QED BY <3>3, <3>4
  <2> QED BY Zenon, <1>7, <2>1, <2>4 DEF RunShape
<1> QED BY Zenon, <1>3, <1>7, <1>11, <1>12 DEF LedOn

\* No ENDIF is reached before an entry was used.
LEMMA NeverWild ==
  ASSUME ScriptInv, Counted, RunOK, RunEndifWild
  PROVE  FALSE
<1>1. status = "run" /\ pc \in DOMAIN script /\ Is(script[pc], FUNCTION_ENDIF) /\ ifEntry = 0
  BY Zenon DEF RunEndifWild, Executes, AtLine
<1>2. Len(script) \in Nat /\ DOMAIN script = 1..Len(script) BY Zenon, ListFacts DEF ScriptInv
<1>3. pc \in 1..Len(script) /\ pc <= Len(script) BY ONLY <1>1, <1>2
<1>4. PICK k \in DOMAIN ifs : ifs[k].endifPosition = pc + 1 BY Zenon, <1>1, <1>3 DEF RunOK, Recorded
<1>5. IfLine(ifs[k]) < pc
  <2>1. (pc + 1) - 1 = pc BY ONLY <1>2, <1>3
  <2>2. IfLine(ifs[k]) \in IfLines /\ ifs[k].endifPosition - 1 = EndifOf(IfLine(ifs[k]))
    BY Zenon, <1>1, IfsClosed
  <2>3. ClosedAt(IfLine(ifs[k]), pc) BY Zenon, <1>1, <1>4, <2>1, <2>2, IfsClosed
  <2> QED BY Zenon, <2>3 DEF ClosedAt
<1>6. pc <= IfLine(ifs[k]) \/ pc >= pc + 1 BY Zenon, <1>1, <1>4 DEF RunOK, RunShape
<1>7. IfLine(ifs[k]) \in Int BY Zenon, ListFacts DEF ScriptInv
<1> QED BY ONLY <1>2, <1>3, <1>5, <1>6, <1>7

\* What a line names is what decoding makes of it.
LEMMA DecodedName ==
  ASSUME NEW a \in LineArgument, NEW value, a.kind \in {"name", "text", "label"} <=> a.name # NULL
  PROVE  decodeArgument(a, value).exist = TRUE /\ decodeArgument(a, value).text = a.name
<1>1. a.kind \in {"function", "operator", "number", "name", "text", "label"}
  BY DEF LineArgument
<1>2. CASE a.kind = "function"
  <2>1. a.name = NULL BY <1>2
  <2> QED BY <1>2, <2>1 DEF decodeArgument
<1>3. CASE a.kind = "operator"
  <2>1. a.name = NULL BY <1>3
  <2> QED BY <1>3, <2>1 DEF decodeArgument
<1>4. CASE a.kind = "number"
  <2>1. a.name = NULL BY <1>4
  <2> QED BY <1>4, <2>1 DEF decodeArgument
<1>5. CASE a.kind = "name" /\ a.name \in DOMAIN vars
  BY <1>5 DEF decodeArgument
<1>6. CASE a.kind \in {"name", "text", "label"} /\ ~(a.kind = "name" /\ a.name \in DOMAIN vars)
  BY <1>6 DEF decodeArgument
<1> QED BY Zenon, <1>1, <1>2, <1>3, <1>4, <1>5, <1>6

\* A GOTO looks for the label that it names.
LEMMA GotoTargets ==
  ASSUME ScriptInv, Counted, AtLine, ReadLine
  PROVE  (IF args'[2].exist THEN LabelLines(args'[2].text) ELSE {}) = Targets(pc)
<1>1. ScriptTypeOK /\ args' = Parsed(script[pc]) BY Zenon DEF ScriptInv, ReadLine
<1>2. /\ script[pc] \in Seq(LineArgument) /\ Len(script[pc]) \in Slots
      /\ \A i \in 1..Len(script[pc]) :
           /\ script[pc][i] \in LineArgument
           /\ script[pc][i].kind \in {"name", "text", "label"} <=> script[pc][i].name # NULL
  BY Zenon, <1>1, LineOK
<1>3. 2 \in Slots BY DEF Slots
<1>4. args'[2] = IF 2 <= Len(script[pc]) THEN decodeArgument(script[pc][2], args[2].value) ELSE Cleaned[2]
  BY Zenon, <1>1, <1>3 DEF Parsed
<1>5. CASE Len(script[pc]) > 1
  <2>1. 2 <= Len(script[pc]) /\ 2 \in 1..Len(script[pc]) BY <1>2, <1>5 DEF Slots
  <2>2. args'[2].exist = TRUE /\ args'[2].text = script[pc][2].name
    <3>1. script[pc][2] \in LineArgument
            /\ (script[pc][2].kind \in {"name", "text", "label"} <=> script[pc][2].name # NULL)
      BY Zenon, <1>2, <2>1
    <3>2. args'[2] = decodeArgument(script[pc][2], args[2].value) BY <1>4, <2>1
    <3> DEFINE a == script[pc][2]
               v == args[2].value
    <3> HIDE DEF a, v
    <3>3. decodeArgument(a, v).exist = TRUE /\ decodeArgument(a, v).text = a.name
      <4>1. a \in LineArgument /\ (a.kind \in {"name", "text", "label"} <=> a.name # NULL)
        BY Zenon, <3>1 DEF a
      <4> QED BY ONLY Zenon, <4>1, DecodedName
    <3> QED BY Zenon, <3>2, <3>3 DEF a, v
  <2> QED BY Zenon, <1>5, <2>2 DEF Targets
<1>6. CASE ~(Len(script[pc]) > 1)
  <2>1. ~(2 <= Len(script[pc])) BY <1>2, <1>6 DEF Slots
  <2>2. args'[2] = Cleaned[2] BY <1>4, <2>1
  <2>3. args'[2].exist = FALSE BY <1>3, <2>2 DEF Cleaned
  <2> QED BY Zenon, <1>6, <2>3 DEF Targets
<1> QED BY <1>5, <1>6

\* A GOTO goes to the first label of that name, which is in no branch that the GOTO is not
\* in itself.
LEMMA GotoLeads ==
  ASSUME ScriptInv, Counted, Balanced, NoJumpIntoIf, RunOK, RunGoto
  PROVE  LedOn
<1>1. /\ status = "run" /\ pc \in DOMAIN script /\ Is(script[pc], FUNCTION_GOTO) /\ ScriptTypeOK
      /\ AtLine /\ ReadLine /\ UNCHANGED <<ifs, ifEntry>>
  BY Zenon DEF RunGoto, Executes, AtLine, ScriptInv
<1>2. /\ script \in Seq(Seq(LineArgument)) /\ Len(script) \in Nat /\ DOMAIN script = 1..Len(script)
  BY Zenon, <1>1, ListFacts
<1>3. ~Is(script[pc], FUNCTION_IF) /\ ~Is(script[pc], FUNCTION_ELSE) BY Zenon, <1>1, KindsApart
<1>4. Successor = IF Targets(pc) # {} THEN Min(Targets(pc)) ELSE pc + 1
  BY Zenon, <1>1, <1>3 DEF Successor
<1>5. \/ Targets(pc) = {} /\ GoesOn(pc + 1)
      \/ \E t \in Targets(pc) : (\A m \in Targets(pc) : t <= m) /\ GoesOn(t)
  BY Zenon, <1>1, GotoTargets DEF RunGoto
<1>6. CASE Targets(pc) = {} /\ GoesOn(pc + 1)
  <2>1. script' = script /\ status' = "run" /\ pc' = pc + 1
    BY Zenon, <1>1, <1>6, NextLine DEF GoesOn
  <2>2. RunShape(ifs, pc + 1, ifEntry) BY Zenon, <1>1, <1>3, StraightOn
  <2>3. ifs' = ifs /\ ifEntry' = ifEntry BY <1>1
  <2> QED BY Zenon, <1>4, <1>6, <2>1, <2>2, <2>3 DEF RunOK, LedOn
<1>7. CASE \E t \in Targets(pc) : (\A m \in Targets(pc) : t <= m) /\ GoesOn(t)
  <2>1. PICK t \in Targets(pc) : (\A m \in Targets(pc) : t <= m) /\ GoesOn(t) BY Zenon, <1>7
  <2>2. Targets(pc) \subseteq 1..Len(script) /\ \A m \in Targets(pc) : IsLabel(script[m])
    BY <1>2 DEF Targets, LabelLines, Label, IsLabel
  <2>3. t \in 1..Len(script) /\ t # NotFound /\ Targets(pc) \subseteq Int
    BY ONLY <1>2, <2>1, <2>2 DEF NotFound
  <2>4. script' = script /\ status' = "run" /\ pc' = t BY Zenon, <1>1, <2>1, <2>3 DEF GoesOn
  <2>5. Min(Targets(pc)) = t BY Zenon, <2>1, <2>3, MinIs
  <2>6. pc' = Successor BY Zenon, <1>4, <2>1, <2>4, <2>5
  <2>7. \A n \in IfLines : Branch(n, t) \in {"outside", Branch(n, pc)}
    BY Zenon, <1>1, <2>1 DEF NoJumpIntoIf
  <2>8. ~Is(script[t], FUNCTION_ELSE) BY <2>1, <2>2 DEF IsLabel, Is, Fn
  <2>9. ASSUME NEW k \in DOMAIN ifs
        PROVE  /\ ifs[k].endifPosition # NotFound
               /\ IfLine(ifs[k]) < t /\ t < ifs[k].elsePosition => ifs[k].validAssertion
               /\ ifEntry = 0 => t <= IfLine(ifs[k]) \/ t >= ifs[k].endifPosition
    <3> DEFINE n == IfLine(ifs[k])
    <3>1. /\ n \in IfLines /\ ifs[k].endifPosition - 1 = EndifOf(n) /\ ifs[k].endifPosition \in Nat
          /\ EndifOf(n) \in 1..Len(script) /\ n \in 1..Len(script)
          /\ ifs[k].elsePosition # NotFound => ifs[k].elsePosition - 1 \in ElsesOf(n)
          /\ ifs[k].elsePosition = NotFound => ElsesOf(n) = {}
      BY Zenon, <1>1, <1>2, <2>9, IfsClosed DEF IfLines
    <3>2. /\ ifs[k].endifPosition # NotFound
          /\ n < pc /\ pc < ifs[k].elsePosition => ifs[k].validAssertion
          /\ ifEntry = 0 => pc <= n \/ pc >= ifs[k].endifPosition
      BY Zenon, <2>9 DEF RunOK, RunShape
    <3>3. Branch(n, t) \in {"outside", Branch(n, pc)} BY Zenon, <2>7, <3>1
    <3> HIDE DEF n
    <3>4. /\ pc \in 1..Len(script) /\ Len(script) \in Nat
          /\ ifs[k].elsePosition \in Nat \cup {NotFound}
      BY Zenon, <1>1, <1>2, <2>9, ListFacts
    <3>5. ASSUME ifEntry = 0 PROVE t <= n \/ t >= ifs[k].endifPosition
      <4>1. pc <= n \/ pc > EndifOf(n)
        <5>1. pc <= n \/ pc >= ifs[k].endifPosition BY Zenon, <3>2, <3>5
        <5> QED BY ONLY <3>1, <3>4, <5>1
      <4>2. Branch(n, pc) = "outside" BY Zenon, <4>1 DEF Branch
      <4>3. Branch(n, t) = "outside" BY <3>3, <4>2
      <4>4. t <= n \/ t > EndifOf(n) BY <4>3 DEF Branch
      <4> QED BY ONLY <2>3, <3>1, <3>4, <4>4
    <3>6. ASSUME n < t, t < ifs[k].elsePosition PROVE ifs[k].validAssertion
      <4>1. ifs[k].elsePosition # NotFound /\ ifs[k].elsePosition \in Nat
        BY ONLY <2>3, <3>4, <3>6 DEF NotFound
      <4> DEFINE e == ifs[k].elsePosition - 1
      <4>2. e \in ElsesOf(n) BY Zenon, <3>1, <4>1
      <4>3. e \in 1..Len(script) /\ Is(script[e], FUNCTION_ELSE) /\ e <= EndifOf(n)
        BY Zenon, <1>2, <3>1, <4>2, ElseFacts
      <4>4. e # t BY Zenon, <2>8, <4>3
      <4>5. ~(t <= n) /\ ~(t > EndifOf(n)) /\ ~(e <= t)
        BY ONLY <2>3, <3>1, <3>4, <3>6, <4>1, <4>3, <4>4
      <4> HIDE DEF e
      <4>6. Branch(n, t) # "outside"
        BY <4>5 DEF Branch
      <4>7. Branch(n, t) = Branch(n, pc) BY <3>3, <4>6
      <4>8. ~(pc <= n) /\ ~(pc > EndifOf(n)) BY <4>6, <4>7 DEF Branch
      <4>9. \A x \in ElsesOf(n) : x = e
        <5>1. ifs[k].elsePosition - 1 \in ElsesOf(n) BY Zenon, <4>2 DEF e
        <5> QED BY Zenon, <1>2, <3>1, <4>2, ElsesOnce
      <4>10. ~(e <= pc)
        <5>1. Branch(n, t) = "then" BY Zenon, <4>5, <4>9 DEF Branch
        <5>2. ~\E x \in ElsesOf(n) : x <= pc BY <4>7, <4>8, <5>1 DEF Branch
        <5> QED BY Zenon, <4>2, <5>2
      <4>11. n < pc /\ pc < ifs[k].elsePosition
        BY ONLY <3>1, <3>4, <4>1, <4>3, <4>8, <4>10 DEF e
      <4> QED BY Zenon, <3>2, <4>11
    <3> QED BY Zenon, <3>2, <3>5, <3>6 DEF n
  <2>10. RunShape(ifs, t, ifEntry) BY Zenon, <2>9 DEF RunShape
  <2>11. ifs' = ifs /\ ifEntry' = ifEntry BY <1>1
  <2> QED BY Zenon, <2>4, <2>6, <2>10, <2>11 DEF RunOK, LedOn
<1> QED BY <1>5, <1>6, <1>7

\* A line of a script that nests as it should stops the script or leads where it says.
LEMMA LinesLead ==
  ASSUME ScriptInv, Counted, WellNested, AtLine, RunOK, ScriptNext
  PROVE  LedOn \/ (script' = script /\ status' \in {"done", "escaped", "booted", "halted"})
<1>1. Balanced /\ NoJumpIntoIf BY DEF WellNested
<1>2. status = "run" /\ pc \in DOMAIN script BY DEF AtLine
<1>3. ~parseFileForIFStatements /\ ~ParseError /\ ~ParseDone /\ ~ScriptEnds
  BY <1>2 DEF parseFileForIFStatements, ParseError, ParseDone, ScriptEnds
<1>4. CASE RunIf BY Zenon, <1>1, <1>4, IfLeads
<1>5. CASE RunElse BY Zenon, <1>1, <1>5, ElseLeads
<1>6. CASE RunEndif BY Zenon, <1>6, EndifLeads
<1>7. CASE RunEndifWild BY Zenon, <1>7, NeverWild
<1>8. CASE RunGoto BY Zenon, <1>1, <1>8, GotoLeads
<1>9. ASSUME GoesOn(pc + 1), UNCHANGED <<ifs, ifEntry>>,
             ~Is(script[pc], FUNCTION_IF), ~Is(script[pc], FUNCTION_ELSE), ~Is(script[pc], FUNCTION_GOTO)
      PROVE  LedOn
  <2>1. \A f \in {FUNCTION_IF, FUNCTION_ELSE, FUNCTION_GOTO} : ~Is(script[pc], f) BY <1>9
  <2> QED BY Zenon, <1>9, <2>1, PlainLeads
<1>10. ASSUME script[pc][1].kind # "function"
       PROVE  ~Is(script[pc], FUNCTION_IF) /\ ~Is(script[pc], FUNCTION_ELSE) /\ ~Is(script[pc], FUNCTION_GOTO)
  BY <1>10 DEF Is, Fn
<1>11. CASE LabelLine
  <2>1. script[pc][1].kind # "function" /\ GoesOn(pc + 1) /\ UNCHANGED <<ifs, ifEntry>>
    BY <1>11 DEF LabelLine, IsLabel
  <2> QED BY Zenon, <1>9, <1>10, <2>1
<1>12. CASE RunVar
  <2>1. Is(script[pc], FUNCTION_VAR) /\ GoesOn(pc + 1) /\ UNCHANGED <<ifs, ifEntry>>
    BY Zenon, <1>12 DEF RunVar, Executes
  <2>2. ~Is(script[pc], FUNCTION_IF) /\ ~Is(script[pc], FUNCTION_ELSE) /\ ~Is(script[pc], FUNCTION_GOTO)
    BY <2>1 DEF Is, Fn, FUNCTION_VAR, FUNCTION_IF, FUNCTION_ELSE, FUNCTION_GOTO
  <2> QED BY Zenon, <1>9, <2>1, <2>2
<1>13. CASE RunCall
  <2>1. /\ script[pc][1].code \notin {FUNCTION_IF, FUNCTION_ELSE, FUNCTION_GOTO}
        /\ GoesOn(pc + 1) /\ UNCHANGED <<ifs, ifEntry>>
    BY <1>13 DEF RunCall
  <2>2. ~Is(script[pc], FUNCTION_IF) /\ ~Is(script[pc], FUNCTION_ELSE) /\ ~Is(script[pc], FUNCTION_GOTO)
    BY <2>1 DEF Is, Fn
  <2> QED BY Zenon, <1>9, <2>1, <2>2
<1>14. CASE RunBoot
  <2>1. /\ Is(script[pc], FUNCTION_BOOT) /\ UNCHANGED <<ifs, ifEntry>>
        /\ GoesOn(pc + 1) \/ (status' = "booted" /\ script' = script)
    BY Zenon, <1>14 DEF RunBoot, Executes
  <2>2. ~Is(script[pc], FUNCTION_IF) /\ ~Is(script[pc], FUNCTION_ELSE) /\ ~Is(script[pc], FUNCTION_GOTO)
    BY <2>1 DEF Is, Fn, FUNCTION_BOOT, FUNCTION_IF, FUNCTION_ELSE, FUNCTION_GOTO
  <2> QED BY Zenon, <1>9, <2>1, <2>2
<1>15. CASE \E input \in Params : RunAssignment(input)
  <2>1. PICK input \in Params : RunAssignment(input) BY Zenon, <1>15
  <2>2. /\ script[pc][1].kind # "function" /\ UNCHANGED <<ifs, ifEntry>>
        /\ GoesOn(pc + 1) \/ (status' = "halted" /\ script' = script)
    BY Zenon, <2>1 DEF RunAssignment
  <2> QED BY Zenon, <1>9, <1>10, <2>2
<1>16. CASE RunFault BY Zenon, <1>16 DEF RunFault
<1>17. CASE RunEnd \/ emergencyEscape BY Zenon, <1>17 DEF RunEnd, emergencyEscape, endExecution
<1> QED BY Zenon, <1>3, <1>4, <1>5, <1>6, <1>7, <1>8, <1>11, <1>12, <1>13, <1>14, <1>15,
           <1>16, <1>17 DEF ScriptNext

\* The list of IFs is in step with the text through the pass and the run.
LEMMA NestInductive ==
  ASSUME ScriptInv, Counted, NestInv, [ScriptNext]_scriptVars
  PROVE  NestInv'
<1>1. script' = script
  BY Zenon DEF ScriptNext, scriptVars, parseFileForIFStatements, ParseError, ParseDone, LabelLine,
     RunIf, RunElse, RunEndif, RunEndifWild, RunGoto, RunVar, RunCall, RunBoot, RunAssignment,
     RunFault, RunEnd, ScriptEnds, emergencyEscape, endExecution, GoesOn
<1> SUFFICES ASSUME WellNested
             PROVE  /\ status' = "parse" => PassOK(ifs, pc - 1)'
                    /\ status' = "run" => /\ ListShape(ifs)' /\ Recorded(ifs, Len(script))'
                                          /\ RunShape(ifs, pc, ifEntry)'
  BY Zenon, <1>1, TextFixed DEF NestInv
<1> SUFFICES /\ status' = "parse" => PassOK(ifs', pc' - 1)
             /\ status' = "run" => /\ ListShape(ifs') /\ Recorded(ifs', Len(script))
                                   /\ RunShape(ifs', pc', ifEntry')
  BY Zenon, <1>1, ShapesFixed
<1>2. Balanced /\ InnerElses BY DEF WellNested
<1>3. /\ status = "parse" => PassOK(ifs, pc - 1)
      /\ status = "run" => RunOK
  BY Zenon DEF NestInv, RunOK
<1>4. CASE parseFileForIFStatements
  <2>1. status = "parse" /\ status' = "parse" /\ pc' = pc + 1 /\ pc \in DOMAIN script
    BY <1>4 DEF parseFileForIFStatements
  <2>2. Len(script) \in Nat /\ pc \in 1..Len(script) + 1 BY Zenon, ListFacts DEF ScriptInv
  <2>3. pc' - 1 = pc BY ONLY <2>1, <2>2
  <2>4. PassOK(ifs', pc) BY Zenon, <1>2, <1>3, <1>4, <2>1, PassStep
  <2>5. status' # "run" BY <2>1
  <2> QED BY Zenon, <2>3, <2>4, <2>5
<1>5. CASE ParseDone
  <2>1. status = "parse" /\ status' = "run" /\ pc' = 1 /\ ifs' = ifs /\ ifEntry' = ifEntry
    BY <1>5 DEF ParseDone
  <2>2. ifEntry = 0 BY <2>1 DEF ScriptInv, ListInv
  <2>3. ListShape(ifs) /\ Recorded(ifs, Len(script)) /\ RunShape(ifs, 1, 0)
    BY Zenon, <1>2, <1>3, <1>5, <2>1, PassEnds
  <2>4. status' # "parse" BY <2>1
  <2> QED BY Zenon, <2>1, <2>2, <2>3, <2>4
<1>6. CASE ParseError \/ ScriptEnds
  BY <1>6 DEF ParseError, ScriptEnds, endExecution
<1>7. CASE AtLine /\ ScriptNext
  <2>1. LedOn \/ status' \in {"done", "escaped", "booted", "halted"}
    BY Zenon, <1>3, <1>7, LinesLead DEF AtLine
  <2>2. CASE LedOn
    <3>1. status' # "parse" BY <2>2 DEF LedOn
    <3> QED BY Zenon, <2>2, <3>1 DEF LedOn
  <2> QED BY <2>1, <2>2
<1>8. CASE UNCHANGED scriptVars
  <2>1. status' = status /\ pc' = pc /\ ifs' = ifs /\ ifEntry' = ifEntry BY <1>8 DEF scriptVars
  <2> QED BY Zenon, <1>3, <2>1 DEF RunOK
<1>9. ScriptNext => AtLine \/ parseFileForIFStatements \/ ParseError \/ ParseDone \/ ScriptEnds
  BY Zenon DEF ScriptNext, LabelLine, RunIf, RunElse, RunEndif, RunEndifWild, RunGoto, RunVar,
     RunCall, RunBoot, RunAssignment, RunFault, RunEnd, emergencyEscape, Executes
<1> QED BY Zenon, <1>4, <1>5, <1>6, <1>7, <1>8, <1>9

\* The pass begins with an empty list.
LEMMA NestInit ==
  ASSUME Counted, ScriptInit
  PROVE  NestInv
<1>1. ScriptInv BY ScriptInvInit
<1>2. status = "parse" /\ status # "run" /\ pc = 1 /\ pc - 1 = 0 /\ ifs = <<>> /\ DOMAIN ifs = {}
  BY DEF ScriptInit
<1>3. ListShape(ifs) BY Zenon, <1>2 DEF ListShape
<1>4. Len(script) \in Nat /\ DOMAIN script = 1..Len(script) BY Zenon, <1>1, ListFacts DEF ScriptInv
<1>5. \A m \in DOMAIN script : ~(m <= 0) BY ONLY <1>4
<1>6. Recorded(ifs, 0) BY Zenon, <1>2, <1>5 DEF Recorded
<1>7. Depth(0) = 0 BY Zenon, DepthSteps
<1>8. Depth(0) >= 0 /\ 0..Depth(0) - 1 = {} BY ONLY <1>7
<1>9. Opened(ifs, 0) BY Zenon, <1>2, <1>8 DEF Opened
<1> QED BY Zenon, <1>2, <1>3, <1>6, <1>9 DEF NestInv, PassOK

\* A line of a well-nested script that the run reads leads on.
LEMMA StepLeads ==
  ASSUME ScriptInv, Counted, NestInv, ScriptNext, status = "run", WellNested, pc \in DOMAIN script,
         status' \notin {"done", "escaped", "booted", "halted"}
  PROVE  status' = "run" /\ pc' = Successor
<1>1. AtLine /\ RunOK BY Zenon DEF AtLine, NestInv, RunOK
<1>2. LedOn BY Zenon, <1>1, LinesLead
<1> QED BY Zenon, <1>2 DEF LedOn

-----------------------------------------------------------------------------
(****************************************************************************)
(* Counting.                                                                *)

INSTANCE FiniteSetTheorems

\* A slot list has finitely many texts.
LEMMA TextsCount == TextsCounted
<1> SUFFICES ASSUME NEW list PROVE Cardinality(Texts(list)) \in Nat
  BY Zenon, FS_EmptySet DEF TextsCounted
<1>1. IsFiniteSet(Slots)
  <2>1. 1 \in Int /\ 5 \in Int OBVIOUS
  <2> QED BY Zenon, <2>1, FS_Interval DEF Slots
<1>2. Texts(list) \in SUBSET Slots BY Zenon DEF Texts
<1>3. IsFiniteSet(Texts(list)) BY Zenon, <1>1, <1>2, FS_Subset
<1> QED BY Zenon, <1>3, FS_CardinalityType

\* Every text a script's lines allocate is freed once or still in its slot, whatever lines
\* the script has and wherever the user escapes, after which none is left.
THEOREM TextsNeverLost == ScriptSpec => []TextsAccounted
<1>1. ScriptInit => TextsAccounted
  <2> SUFFICES ASSUME ScriptInit PROVE TextsAccounted
    OBVIOUS
  <2>1. Texts(args) = {} BY DEF ScriptInit, Texts, NoArgument
  <2> QED BY Zenon, <2>1, TextsCount DEF TextsCounted, ScriptInit, TextsAccounted
<1>2. ScriptInv /\ TextsAccounted /\ [ScriptNext]_scriptVars => TextsAccounted'
  BY Zenon, TextsCount, TextsStep
<1>3. ScriptInv /\ [ScriptNext]_scriptVars => ScriptInv' BY ScriptInvInductive
<1> QED BY <1>1, <1>2, <1>3, ScriptInvInit, PTL DEF ScriptSpec

\* Lines are counted by finite sets.
LEMMA CountOK ==
  ASSUME NEW f, NEW a \in Int, NEW b \in Int
  PROVE  IsFiniteSet({n \in a..b : Is(script[n], f)}) /\ Count(f, a, b) \in Nat
<1>1. IsFiniteSet(a..b) BY Zenon, FS_Interval
<1>2. {n \in a..b : Is(script[n], f)} \in SUBSET (a..b) BY Zenon
<1>3. IsFiniteSet({n \in a..b : Is(script[n], f)}) BY Zenon, <1>1, <1>2, FS_Subset
<1> QED BY Zenon, <1>3, FS_CardinalityType DEF Count

\* The count of some lines and of those that follow.
LEMMA CountSplit ==
  ASSUME NEW f, NEW a \in Int, NEW b \in Int, NEW c \in Int, a <= b + 1, b <= c
  PROVE  Count(f, a, c) = Count(f, a, b) + Count(f, b + 1, c)
<1> DEFINE In(x, y) == {n \in x..y : Is(script[n], f)}
<1>1. In(a, c) = In(a, b) \cup In(b + 1, c) /\ In(a, b) \cap In(b + 1, c) = {}
  OBVIOUS
<1>2. /\ IsFiniteSet(In(a, b)) /\ IsFiniteSet(In(b + 1, c))
      /\ Cardinality(In(a, b)) \in Nat /\ Cardinality(In(b + 1, c)) \in Nat
  <2>1. b + 1 \in Int OBVIOUS
  <2> QED BY Zenon, <2>1, CountOK DEF Count
<1>3. /\ Count(f, a, c) = Cardinality(In(a, c)) /\ Count(f, a, b) = Cardinality(In(a, b))
      /\ Count(f, b + 1, c) = Cardinality(In(b + 1, c))
  BY Zenon DEF Count
<1> HIDE DEF In
<1>4. Cardinality(In(a, b) \cup In(b + 1, c)) =
        Cardinality(In(a, b)) + Cardinality(In(b + 1, c)) - Cardinality(In(a, b) \cap In(b + 1, c))
  BY Zenon, <1>2, FS_Union
<1>5. Cardinality(In(a, b) \cap In(b + 1, c)) = 0
  BY Zenon, <1>1, FS_EmptySet
<1>6. Count(f, a, c) = Count(f, a, b) + Count(f, b + 1, c) - 0
  BY Zenon, <1>1, <1>3, <1>4, <1>5
<1>7. Count(f, a, b) \in Nat /\ Count(f, b + 1, c) \in Nat BY Zenon, <1>2, <1>3
<1> QED BY ONLY <1>6, <1>7

\* A line counts for one or for none.
LEMMA CountOne ==
  ASSUME NEW f, NEW n \in Int
  PROVE  Count(f, n, n) = IF Is(script[n], f) THEN 1 ELSE 0
<1> DEFINE S == {m \in n..n : Is(script[m], f)}
<1>1. CASE Is(script[n], f)
  <2>1. S = {n} BY <1>1
  <2> QED BY Zenon, <1>1, <2>1, FS_Singleton DEF Count
<1>2. CASE ~Is(script[n], f)
  <2>1. S = {} BY <1>2
  <2> QED BY Zenon, <1>2, <2>1, FS_EmptySet DEF Count
<1> QED BY <1>1, <1>2

\* A set of numbers of at most one element.
LEMMA AtMostOne ==
  ASSUME NEW S, NEW a \in Int, NEW b \in Int, S \subseteq a..b, Cardinality(S) <= 1,
         NEW x \in S, NEW y \in S
  PROVE  x = y
<1>1. IsFiniteSet(S)
  <2>1. IsFiniteSet(a..b) BY Zenon, FS_Interval
  <2>2. S \in SUBSET (a..b) BY Zenon
  <2> QED BY Zenon, <2>1, <2>2, FS_Subset
<1>2. Cardinality(S) \in Nat BY Zenon, <1>1, FS_CardinalityType
<1>3. Cardinality(S) = 0 \/ Cardinality(S) = 1
  <2>1. Cardinality(S) <= 1 OBVIOUS
  <2> QED BY ONLY <1>2, <2>1
<1>4. CASE Cardinality(S) = 0
  <2>1. S = {} BY Zenon, <1>1, <1>4, FS_EmptySet
  <2> QED BY Zenon, <2>1
<1>5. CASE Cardinality(S) = 1
  <2>1. PICK z : S = {z} BY Zenon, <1>1, <1>5, FS_Singleton
  <2> QED BY Zenon, <2>1
<1> QED BY Zenon, <1>3, <1>4, <1>5

INSTANCE WellFoundedInduction

\* Every set of numbers that is not empty has a least one.
LEMMA LeastNumber ==
  ASSUME NEW S, S \subseteq Nat, S # {}
  PROVE  \E x \in S : \A y \in S : x <= y
<1> DEFINE R == OpToRel(<, Nat)
<1>1. \A x, y \in Nat : y < x => <<y, x>> \in R
  BY DEF OpToRel
<1>2. IsWellFoundedOn(R, Nat) BY Zenon, NatLessThanWellFounded
<1> HIDE DEF R
<1>3. PICK x \in S : \A y \in S : <<y, x>> \notin R
  BY Zenon, <1>2, WFMin
<1>4. \A y \in S : ~(y < x)
  BY Zenon, <1>1, <1>3
<1>5. x \in Nat /\ \A y \in S : y \in Nat BY Zenon
<1>6. \A y \in Nat : ~(y < x) => x <= y BY ONLY <1>5
<1> QED BY Zenon, <1>4, <1>5, <1>6

\* The laws of counting hold.
LEMMA LawsHold == CountLaws
<1>1. \A f : Count(f, 1, 0) = 0
  <2> TAKE f
  <2>1. {n \in 1..0 : Is(script[n], f)} = {} OBVIOUS
  <2> QED BY Zenon, <2>1, FS_EmptySet DEF Count
<1>2. \A f : \A a, b \in Int : Count(f, a, b) \in Nat BY Zenon, CountOK
<1>3. \A f : \A a, b, c \in Int : a <= b + 1 /\ b <= c
        => Count(f, a, c) = Count(f, a, b) + Count(f, b + 1, c)
  BY Zenon, CountSplit
<1>4. \A f : \A n \in Int : Count(f, n, n) = IF Is(script[n], f) THEN 1 ELSE 0
  BY Zenon, CountOne
<1>5. \A S : S \subseteq Nat /\ S # {} => \E x \in S : \A y \in S : x <= y
  BY Zenon, LeastNumber
<1>6. \A S : \A a, b \in Int : S \subseteq a..b /\ Cardinality(S) <= 1
        => \A x, y \in S : x = y
  BY Zenon, AtMostOne
<1> QED BY Zenon, <1>1, <1>2, <1>3, <1>4, <1>5, <1>6 DEF CountLaws

\* In a script whose IFs are balanced, into which no GOTO jumps, and in which an ELSE comes
\* after no inner IF without one, every line leads where the nesting says.  The list that
\* parseFileForIFStatements makes in one pass, giving an ELSE and an ENDIF to the last entry
\* that has none, the three searches of runScript in it, the one of an ENDIF from wherever
\* the last one ended, and the flags, which outlive a GOTO out of an IF, agree with the text
\* for any number of lines, depth of nesting and rounds of a loop.
THEOREM NestingFollowed == ScriptSpec => FollowsNesting
<1>0. ScriptInv => Counted BY Zenon, LawsHold, CountsHold DEF ScriptInv
<1>1. ScriptInv /\ [ScriptNext]_scriptVars => ScriptInv' BY ScriptInvInductive
<1>2. ScriptInv /\ NestInv /\ [ScriptNext]_scriptVars => NestInv' BY <1>0, NestInductive
<1>4. ScriptInit => NestInv BY <1>0, ScriptInvInit, NestInit
<1>3. ScriptInv /\ NestInv /\ [ScriptNext]_scriptVars
        => [status = "run" /\ WellNested /\ pc \in DOMAIN script
              /\ status' \notin {"done", "escaped", "booted", "halted"}
            => status' = "run" /\ pc' = Successor]_scriptVars
  BY Zenon, <1>0, StepLeads
<1> QED BY <1>1, <1>2, <1>3, <1>4, ScriptInvInit, PTL DEF ScriptSpec, FollowsNesting

=============================================================================
