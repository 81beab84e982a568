---------------------------- MODULE ScriptEngine ----------------------------
(* The interpreter of boot scripts: runScript of                            *)
(* xblast/scriptEngine/xblastScriptEngine.c.                                *)
(*                                                                          *)
(* A script is what trimScript leaves: a sequence of lines, and a line the  *)
(* sequence of arguments it is cut into.  A place in the file is a number   *)
(* of a line.  What a called function does to the hardware is left out.     *)
EXTENDS Integers, Sequences, FiniteSets, FiniteSetsExt

CONSTANTS
  Scripts,      \* the scripts that may be run
  Names,        \* the names of variables and labels that occur in them
  Params,       \* values of the parameter, and of what a function reads
  WordBits      \* the width of an int

VARIABLES
  script,       \* file: the script that runs
  status,       \* "parse", "run", or how the run ended
  pc,           \* stringStartPtr, as the number of a line
  ifs,          \* ifStatementList
  ifEntry,      \* ifEntry, as an index into ifs; 0 before it is assigned
  args,         \* argumentList
  vars,         \* variableList
  held,         \* how many of the texts decodeArgument allocated are not freed
  interruptible    \* whether the processor takes interrupts

scriptVars == <<script, status, pc, ifs, ifEntry, args, vars, held, interruptible>>

FUNCTION_IF == 0
FUNCTION_ELSE == 1
FUNCTION_ENDIF == 2
FUNCTION_GOTO == 3
FUNCTION_GPI == 4
FUNCTION_BOOT == 7
FUNCTION_LED == 9
FUNCTION_LCDW == 10
FUNCTION_VAR == 15
FUNCTION_SPIR == 16
FUNCTION_XPAD == 18
FUNCTION_END == 19

OPTYPE_EQ_EQ == 0
OPTYPE_NOT_EQ == 1
OPTYPE_GREATER == 2
OPTYPE_LOWER == 3
OPTYPE_GREATER_EQ == 4
OPTYPE_LOWER_EQ == 5
OPTYPE_EQ == 6
OPTYPE_PLUS == 7
OPTYPE_MINUS == 8
OPTYPE_MULT == 9
OPTYPE_DIVIDE == 10
OPTYPE_MOD == 11
OPTYPE_SHIFTUP == 12
OPTYPE_SHIFTDOWN == 13

NULL == ""
Slots == 1..5
NotFound == -1

\* Arguments as they stand in a line.
Fn(f) == [kind |-> "function", code |-> f, name |-> NULL]
Op(o) == [kind |-> "operator", code |-> o, name |-> NULL]
Num(n) == [kind |-> "number", code |-> n, name |-> NULL]
Name(s) == [kind |-> "name", code |-> 0, name |-> s]
Text(s) == [kind |-> "text", code |-> 0, name |-> s]
Label(s) == <<[kind |-> "label", code |-> 0, name |-> s]>>

Is(line, f) == line[1] = Fn(f)
IsLabel(line) == line[1].kind = "label"

LineArgument == [kind : {"function", "operator", "number", "name", "text", "label"},
                 code : Int, name : Names \cup {NULL}]

\* Lines have one to five arguments; names, texts and labels alone have a name; a
\* declaration names what it declares; behind the first argument there are no functions
\* but those that read something.
ASSUME ScriptsAssumption ==
  /\ {"BNKOS", "_param0"} \subseteq Names /\ NULL \notin Names
  /\ \A s \in Scripts :
       /\ s \in Seq(Seq(LineArgument))
       /\ \A n \in DOMAIN s :
            /\ Len(s[n]) \in Slots
            /\ \A i \in DOMAIN s[n] : s[n][i].kind \in {"name", "text", "label"} <=> s[n][i].name # NULL
            /\ Is(s[n], FUNCTION_VAR) /\ Len(s[n]) > 1 => s[n][2].kind = "name"
            /\ \A i \in 2..Len(s[n]) : s[n][i].kind = "function" =>
                 s[n][i].code \in {FUNCTION_GPI, FUNCTION_SPIR, FUNCTION_XPAD}

(****************************************************************************)
(* int arithmetic.                                                          *)

IntWord == 2 ^ WordBits
Wrap(n) == ((n + IntWord \div 2) % IntWord) - IntWord \div 2

Abs(n) == IF n < 0 THEN -n ELSE n
Sign(n) == IF n < 0 THEN -1 ELSE 1

\* Division truncates, a shift counts modulo the width.
Operate(op, l, r) ==
  CASE op = OPTYPE_PLUS -> Wrap(l + r)
    [] op = OPTYPE_MINUS -> Wrap(l - r)
    [] op = OPTYPE_MULT -> Wrap(l * r)
    [] op = OPTYPE_DIVIDE -> Sign(l) * Sign(r) * (Abs(l) \div Abs(r))
    [] op = OPTYPE_MOD -> Sign(l) * (Abs(l) % Abs(r))
    [] op = OPTYPE_SHIFTUP -> Wrap(l * 2 ^ (r % WordBits))
    [] op = OPTYPE_SHIFTDOWN -> l \div 2 ^ (r % WordBits)

\* The processor raises an exception.
Faults(op, l, r) ==
  op \in {OPTYPE_DIVIDE, OPTYPE_MOD} /\ (r = 0 \/ (r = -1 /\ l = -(IntWord \div 2)))

ifFunction(param1, op, param2) ==
  \/ op = OPTYPE_EQ_EQ /\ param1 = param2
  \/ op = OPTYPE_NOT_EQ /\ param1 # param2
  \/ op = OPTYPE_GREATER /\ param1 > param2
  \/ op = OPTYPE_LOWER /\ param1 < param2
  \/ op = OPTYPE_GREATER_EQ /\ param1 >= param2
  \/ op = OPTYPE_LOWER_EQ /\ param1 <= param2

(****************************************************************************)
(* The arguments of a line.                                                 *)

NoArgument == [exist |-> FALSE, type |-> "UNKNOWN", value |-> 0, text |-> NULL]

\* value keeps what the slot held before where the code does not assign it.
decodeArgument(a, value) ==
  CASE a.kind = "function" -> [exist |-> TRUE, type |-> "FUNCTION", value |-> a.code, text |-> NULL]
    [] a.kind = "operator" -> [exist |-> TRUE, type |-> "OPERATOR", value |-> a.code, text |-> NULL]
    [] a.kind = "number" -> [exist |-> TRUE, type |-> "NUMERIC", value |-> a.code, text |-> NULL]
    [] a.kind = "name" /\ a.name \in DOMAIN vars ->
         [exist |-> TRUE, type |-> "VARIABLE", value |-> vars[a.name].value, text |-> a.name]
    [] OTHER -> [exist |-> TRUE, type |-> "STRING", value |-> value, text |-> a.name]

\* The slots whose text was allocated, of an argumentList.
Texts(list) == {i \in Slots : list[i].type = "STRING" /\ list[i].text # NULL}

\* Mutant: the pointer stays.
CleanedKeeps ==
  [i \in Slots |-> [args[i] EXCEPT !.exist = FALSE]]

\* Cleanup from last line: the type stays.
Cleaned ==
  [i \in Slots |-> [exist |-> FALSE, type |-> args[i].type, value |-> args[i].value,
                    text |-> IF args[i].type = "STRING" THEN NULL ELSE args[i].text]]

\* The arguments of a line, in the slots that the last line left.
Parsed(line) ==
  [i \in Slots |-> IF i <= Len(line) THEN decodeArgument(line[i], args[i].value) ELSE Cleaned[i]]

\* The slots for which decoding a line allocates a text.
Allocated(line) == {i \in Slots : i <= Len(line) /\ Parsed(line)[i].type = "STRING"}

\* free() of NULL masks interrupts; any other free, and malloc, takes the mask away.
Unmasked(line) ==
  LET strings == {i \in Slots : args[i].type = "STRING"}
  IN \/ Allocated(line) # {}
     \/ strings = {} /\ interruptible
     \/ strings # {} /\ Max(strings) \in Texts(args)

\* What each line does before its function: clean up, cut, decode.
ReadLine ==
  /\ args' = Parsed(script[pc])
  /\ held' = held - Cardinality(Texts(args)) + Cardinality(Allocated(script[pc]))

(****************************************************************************)
(* The value of the right-hand side, from its last argument to its first.   *)

\* What a function in an expression leaves in the accumulator.
Reads(list, i, acc, input) ==
  LET f == list[i].value
      key == list[4].type = "VARIABLE"
  IN IF list[1].type = "VARIABLE" /\ (f = FUNCTION_GPI => list[4].exist)
       THEN [acc EXCEPT !.inUse = TRUE,
                        !.value = IF f = FUNCTION_XPAD /\ list[4].exist /\ ~key THEN 0 ELSE input]
       ELSE acc

\* Mutant: the operands of - and / are always exchanged.
CombineBackwards(arg, acc) ==
  LET swapped == acc.op \in {OPTYPE_MINUS, OPTYPE_DIVIDE}
      l == IF swapped THEN acc.value ELSE arg.value
      r == IF swapped THEN arg.value ELSE acc.value
  IN CASE ~acc.inUse -> [acc EXCEPT !.inUse = TRUE, !.value = arg.value]
       [] acc.inUse /\ acc.op \notin OPTYPE_PLUS..OPTYPE_SHIFTDOWN -> acc
       [] OTHER -> IF Faults(acc.op, l, r) THEN [acc EXCEPT !.fault = TRUE]
                     ELSE [acc EXCEPT !.value = Operate(acc.op, l, r)]

\* A variable is the left operand; a number is the right one of - and /.
Combine(arg, acc) ==
  LET swapped == arg.type = "NUMERIC" /\ acc.op \in {OPTYPE_MINUS, OPTYPE_DIVIDE}
      l == IF swapped THEN acc.value ELSE arg.value
      r == IF swapped THEN arg.value ELSE acc.value
  IN CASE ~acc.inUse -> [acc EXCEPT !.inUse = TRUE, !.value = arg.value]
       [] acc.inUse /\ acc.op \notin OPTYPE_PLUS..OPTYPE_SHIFTDOWN -> acc
       [] OTHER -> IF Faults(acc.op, l, r) THEN [acc EXCEPT !.fault = TRUE]
                     ELSE [acc EXCEPT !.value = Operate(acc.op, l, r)]

Scanned(list, i, acc, input) ==
  CASE ~list[i].exist -> acc
    [] list[i].exist /\ list[i].type = "FUNCTION" -> Reads(list, i, acc, input)
    [] list[i].exist /\ list[i].type = "OPERATOR" -> [acc EXCEPT !.op = list[i].value]
    [] list[i].exist /\ list[i].type \in {"VARIABLE", "NUMERIC"} -> Combine(list[i], acc)
    [] OTHER -> acc

Accumulator(list, input) ==
  LET scan[i \in 2..6] ==
        IF i = 6 THEN [value |-> 0, inUse |-> FALSE, op |-> -1, fault |-> FALSE]
                 ELSE Scanned(list, i, scan[i + 1], input)
  IN scan[2]

(****************************************************************************)
(* Lists.                                                                   *)

\* BNK512, BNK256, BNKOS, BNKFULLTSOP, BNKTSOPSPLIT0, BNKTSOPSPLIT1.
BNKOS == 135
Banks == {132, 134, BNKOS, 0, 16, 24}

\* One of the constants that runScript declares.
ReadOnly == [BNKOS |-> [value |-> BNKOS, readOnly |-> TRUE]]

\* variableFunction: a name that is taken is not declared again.
variableFunction(name, value) ==
  IF name \in DOMAIN vars THEN vars
  ELSE [n \in DOMAIN vars \cup {name} |->
          IF n = name THEN [value |-> value, readOnly |-> FALSE] ELSE vars[n]]

updateVariable(name, value) ==
  [vars EXCEPT ![name].value = IF vars[name].readOnly THEN @ ELSE value]

\* Where labels of that name are; the first counts.
LabelLines(name) == {n \in DOMAIN script : script[n] = Label(name)}

IfPlaces == [j \in DOMAIN ifs |-> ifs[j].ifPosition]
ElsePlaces == [j \in DOMAIN ifs |-> ifs[j].elsePosition]
EndifPlaces == [j \in DOMAIN ifs |-> ifs[j].endifPosition]

\* A walk from entry "from" stops at j: at the first with that place, or at the last.
StopsAt(from, places, place, j) ==
  /\ j \in DOMAIN ifs /\ from <= j
  /\ places[j] = place \/ j = Len(ifs)
  /\ \A k \in from..j - 1 : places[k] # place

\* Mutant: the first entry in which the place is missing.
IsOpenFirst(places, j) ==
  /\ j \in DOMAIN ifs /\ places[j] = NotFound
  /\ \A k \in 1..j - 1 : places[k] # NotFound

\* The last entry in which the place is missing.
IsOpen(places, j) ==
  /\ j \in DOMAIN ifs /\ places[j] = NotFound
  /\ \A k \in j + 1..Len(ifs) : places[k] # NotFound

(****************************************************************************)

\* A script from the menu has no parameter, one run at boot has one.
ScriptInit ==
  /\ script \in Scripts
  /\ status = "parse" /\ pc = 1
  /\ ifs = <<>> /\ ifEntry = 0
  /\ args = [i \in Slots |-> NoArgument]
  /\ \/ vars = ReadOnly
     \/ \E p \in Params :
          vars = [n \in {"BNKOS", "_param0"} |->
                    IF n = "BNKOS" THEN ReadOnly[n] ELSE [value |-> p, readOnly |-> FALSE]]
  /\ held = 0
  /\ interruptible = TRUE

\* endExecution: the three lists are freed, the texts of the line are not.
endExecution(how) ==
  /\ status' = how
  /\ vars' = [n \in {} |-> 0] /\ ifs' = <<>>
  /\ interruptible' = TRUE
  /\ UNCHANGED <<script, pc, ifEntry>>

(****************************************************************************)
(* parseFileForIFStatements, a line at a time.                              *)

NewIf == [ifPosition |-> pc + 1, elsePosition |-> NotFound, endifPosition |-> NotFound,
          validAssertion |-> FALSE]

parseFileForIFStatements ==
  /\ status = "parse" /\ pc \in DOMAIN script
  /\ pc' = pc + 1
  /\ \/ /\ Is(script[pc], FUNCTION_IF)
        /\ ifs' = Append(ifs, NewIf)
     \/ /\ Is(script[pc], FUNCTION_ELSE)
        /\ \E j \in DOMAIN ifs : /\ IsOpen(ElsePlaces, j)
                                 /\ ifs' = [ifs EXCEPT ![j].elsePosition = pc + 1]
     \/ /\ Is(script[pc], FUNCTION_ENDIF)
        /\ \E j \in DOMAIN ifs : /\ IsOpen(EndifPlaces, j)
                                 /\ ifs' = [ifs EXCEPT ![j].endifPosition = pc + 1]
     \/ /\ \A f \in {FUNCTION_IF, FUNCTION_ELSE, FUNCTION_ENDIF} : ~Is(script[pc], f)
        /\ ifs' = ifs
  /\ UNCHANGED <<script, status, ifEntry, args, vars, held, interruptible>>

\* An ELSE or an ENDIF without an IF.
ParseError ==
  /\ status = "parse" /\ pc \in DOMAIN script
  /\ \/ Is(script[pc], FUNCTION_ELSE) /\ \A j \in DOMAIN ifs : ElsePlaces[j] # NotFound
     \/ Is(script[pc], FUNCTION_ENDIF) /\ \A j \in DOMAIN ifs : EndifPlaces[j] # NotFound
  /\ endExecution("done")
  /\ UNCHANGED <<args, held>>

ParseDone ==
  /\ status = "parse" /\ pc \notin DOMAIN script
  /\ status' = "run" /\ pc' = 1
  /\ UNCHANGED <<script, ifs, ifEntry, args, vars, held, interruptible>>

(****************************************************************************)
(* The lines.                                                               *)

AtLine == status = "run" /\ pc \in DOMAIN script

\* Mutant: the place is not compared as an unsigned number.
GoesOnSigned(place) == pc' = place /\ UNCHANGED <<script, status>>

\* A line that goes on at the given place; -1, as an unsigned number, is the end.
GoesOn(place) ==
  /\ pc' = IF place = NotFound THEN Len(script) + 1 ELSE place
  /\ UNCHANGED <<script, status>>

LabelLine ==
  /\ AtLine /\ IsLabel(script[pc])
  /\ GoesOn(pc + 1)
  /\ UNCHANGED <<ifs, ifEntry, args, vars, held, interruptible>>

\* The arguments behind a function are computed too, and the result is not used.
Computes == ~Accumulator(args', 0).fault

Executes(f) == AtLine /\ Is(script[pc], f) /\ ReadLine /\ Computes

RunIf ==
  /\ Executes(FUNCTION_IF) /\ \A i \in 2..4 : args'[i].exist
  /\ \E j \in DOMAIN ifs :
       LET holds == ifFunction(args'[2].value, args'[3].value, args'[4].value)
           e == ifs[j]
       IN /\ StopsAt(1, IfPlaces, pc + 1, j)
          /\ ifEntry' = j
          /\ ifs' = [ifs EXCEPT ![j].validAssertion = holds]
          /\ GoesOn(IF holds THEN pc + 1
                    ELSE IF e.elsePosition # NotFound THEN e.elsePosition ELSE e.endifPosition)
  /\ interruptible' = Unmasked(script[pc])
  /\ UNCHANGED vars

RunElse ==
  /\ Executes(FUNCTION_ELSE)
  /\ \E j \in DOMAIN ifs :
       /\ StopsAt(1, ElsePlaces, pc + 1, j)
       /\ ifEntry' = j
       /\ GoesOn(IF ifs[j].validAssertion THEN ifs[j].endifPosition ELSE pc + 1)
  /\ interruptible' = Unmasked(script[pc])
  /\ UNCHANGED <<ifs, vars>>

\* The search starts at the entry that was used last.
RunEndif ==
  /\ Executes(FUNCTION_ENDIF) /\ ifEntry # 0
  /\ \E j \in DOMAIN ifs :
       /\ StopsAt(ifEntry, EndifPlaces, pc + 1, j)
       /\ ifEntry' = j
       /\ ifs' = [ifs EXCEPT ![j].validAssertion = FALSE]
  /\ GoesOn(pc + 1)
  /\ interruptible' = Unmasked(script[pc])
  /\ UNCHANGED vars

\* No entry was ever used: what happens depends on what the pointer holds.
RunEndifWild ==
  /\ Executes(FUNCTION_ENDIF) /\ ifEntry = 0
  /\ status' = "wild"
  /\ UNCHANGED <<script, pc, ifs, ifEntry, vars, interruptible>>

\* A label that is not there is no error.
RunGoto ==
  /\ Executes(FUNCTION_GOTO)
  /\ LET lines == IF args'[2].exist THEN LabelLines(args'[2].text) ELSE {}
     IN \/ lines = {} /\ GoesOn(pc + 1)
        \/ \E n \in lines : (\A m \in lines : n <= m) /\ GoesOn(n)
  /\ interruptible' = Unmasked(script[pc])
  /\ UNCHANGED <<ifs, ifEntry, vars>>

RunVar ==
  /\ Executes(FUNCTION_VAR) /\ args'[2].exist
  /\ vars' = variableFunction(args'[2].text, IF args'[4].exist THEN args'[4].value ELSE 0)
  /\ GoesOn(pc + 1)
  /\ interruptible' = (Unmasked(script[pc]) \/ args'[2].text \notin DOMAIN vars)
  /\ UNCHANGED <<ifs, ifEntry>>

\* A line that begins with one of the functions that only reach the hardware.
RunCall ==
  /\ AtLine /\ script[pc][1].kind = "function"
  /\ script[pc][1].code \notin {FUNCTION_IF, FUNCTION_ELSE, FUNCTION_ENDIF, FUNCTION_GOTO,
                                FUNCTION_VAR, FUNCTION_BOOT, FUNCTION_END}
  /\ ReadLine /\ Computes
  /\ GoesOn(pc + 1)
  /\ interruptible' = Unmasked(script[pc])
  /\ UNCHANGED <<ifs, ifEntry, vars>>

\* bootFunction does not return when the number is that of a bank.
RunBoot ==
  /\ Executes(FUNCTION_BOOT)
  /\ IF /\ args'[2].exist /\ args'[2].type \in {"VARIABLE", "NUMERIC"}
        /\ args'[2].value \in Banks
       THEN status' = "booted" /\ UNCHANGED <<script, pc>>
       ELSE GoesOn(pc + 1)
  /\ interruptible' = Unmasked(script[pc])
  /\ UNCHANGED <<ifs, ifEntry, vars>>

\* A line that begins with a name or a number: an assignment, if it names a variable.
RunAssignment(input) ==
  LET acc == Accumulator(args', input)
      assigns == /\ args'[1].type = "VARIABLE" /\ acc.inUse
                 /\ args'[2].type = "OPERATOR" /\ args'[2].value = OPTYPE_EQ
  IN /\ AtLine /\ script[pc][1].kind \notin {"function", "label"}
     /\ ReadLine
     /\ IF acc.fault
          THEN status' = "halted" /\ UNCHANGED <<script, pc, vars>>
          ELSE /\ vars' = IF assigns THEN updateVariable(args'[1].text, acc.value) ELSE vars
               /\ GoesOn(pc + 1)
     /\ interruptible' = Unmasked(script[pc])
     /\ UNCHANGED <<ifs, ifEntry>>

\* The handler of a division by zero returns to the division.
RunFault ==
  /\ AtLine /\ script[pc][1].kind = "function" /\ ReadLine /\ ~Computes
  /\ status' = "halted"
  /\ interruptible' = Unmasked(script[pc])
  /\ UNCHANGED <<script, pc, ifs, ifEntry, vars>>

\* END, and the lines that lack what they need.
RunEnd ==
  /\ \/ Executes(FUNCTION_END)
     \/ Executes(FUNCTION_IF) /\ \E i \in 2..4 : ~args'[i].exist
     \/ Executes(FUNCTION_VAR) /\ ~args'[2].exist
  /\ endExecution("done")

\* The end of the file.
ScriptEnds ==
  /\ status = "run" /\ pc \notin DOMAIN script
  /\ endExecution("done")
  /\ UNCHANGED <<args, held>>

\* The user holds both triggers, Start and White.
emergencyEscape ==
  /\ AtLine /\ ~IsLabel(script[pc])
  /\ args' = Cleaned
  /\ held' = held - Cardinality(Texts(args))
  /\ endExecution("escaped")

ScriptNext ==
  \/ parseFileForIFStatements \/ ParseError \/ ParseDone
  \/ LabelLine \/ RunIf \/ RunElse \/ RunEndif \/ RunEndifWild \/ RunGoto \/ RunVar
  \/ RunCall \/ RunBoot \/ (\E input \in Params : RunAssignment(input)) \/ RunFault
  \/ RunEnd \/ ScriptEnds \/ emergencyEscape

ScriptSpec == ScriptInit /\ [][ScriptNext]_scriptVars

(****************************************************************************)
(* What nesting says.                                                       *)

Count(f, from, to) == Cardinality({n \in from..to : Is(script[n], f)})

\* The lines from..to, both included, close what they open.
Level(from, to) == Count(FUNCTION_IF, from, to) = Count(FUNCTION_ENDIF, from, to)

IfLines == {n \in DOMAIN script : Is(script[n], FUNCTION_IF)}

\* The ENDIF of the IF in line n; 0 if there is none.
EndifOf(n) ==
  LET ends == {m \in n..Len(script) : Level(n, m)} IN IF ends = {} THEN 0 ELSE Min(ends)

\* The ELSE of the IF in line n.
ElsesOf(n) == {m \in n..EndifOf(n) : Is(script[m], FUNCTION_ELSE) /\ Level(n + 1, m - 1)}

\* Every IF has its ENDIF and at most one ELSE, and nothing is left over.
Balanced ==
  /\ Level(1, Len(script))
  /\ \A n \in IfLines : EndifOf(n) # 0 /\ Cardinality(ElsesOf(n)) <= 1
  /\ \A m \in DOMAIN script : Is(script[m], FUNCTION_ELSE) =>
       \E n \in IfLines : m \in ElsesOf(n)

\* The branch of an IF that line m is in.
Branch(n, m) ==
  IF m <= n \/ m > EndifOf(n) THEN "outside"
  ELSE IF \E e \in ElsesOf(n) : e <= m THEN "else" ELSE "then"

\* The labels that the GOTO in line g names.
Targets(g) == IF Len(script[g]) > 1 THEN LabelLines(script[g][2].name) ELSE {}

\* No GOTO leads into a branch it does not stand in.
NoJumpIntoIf ==
  \A g \in DOMAIN script : Is(script[g], FUNCTION_GOTO) =>
    \A t \in Targets(g) : \A n \in IfLines :
      Branch(n, t) \in {"outside", Branch(n, g)}

\* An ELSE comes after no inner IF that has none.
InnerElses ==
  \A n \in IfLines : \A e \in ElsesOf(n) : \A m \in IfLines \cap (n + 1)..e :
    ElsesOf(m) # {}

WellNested == Balanced /\ NoJumpIntoIf /\ InnerElses

\* Where the line at pc leads, once its arguments are decoded.
Successor ==
  IF Is(script[pc], FUNCTION_IF) /\ ~ifFunction(args'[2].value, args'[3].value, args'[4].value)
    THEN Min(ElsesOf(pc) \cup {EndifOf(pc)}) + 1
  ELSE IF Is(script[pc], FUNCTION_ELSE)
    THEN EndifOf(CHOOSE n \in IfLines : pc \in ElsesOf(n)) + 1
  ELSE IF Is(script[pc], FUNCTION_GOTO) /\ Targets(pc) # {}
    THEN Min(Targets(pc))
  ELSE pc + 1

(****************************************************************************)
(* Properties.                                                              *)

ArgumentOK(a) ==
  /\ a.exist \in BOOLEAN /\ a.text \in Names \cup {NULL}
  /\ a.type \in {"UNKNOWN", "FUNCTION", "OPERATOR", "VARIABLE", "NUMERIC", "STRING"}

IfStatement ==
  [ifPosition : Nat, elsePosition : Nat \cup {NotFound}, endifPosition : Nat \cup {NotFound},
   validAssertion : BOOLEAN]

\* A place that is found lies in the script, behind the IF.
Behind(e, place) == place # NotFound => e.ifPosition < place /\ place <= Len(script) + 1

\* The state of runScript: what an entry records lies behind its IF and in the script, the
\* entry pointed to is in the list, the place reached is in the script or at its end.
ScriptTypeOK ==
  /\ script \in Scripts
  /\ status \in {"parse", "run", "done", "escaped", "booted", "halted", "wild"}
  /\ pc \in 1..Len(script) + 1
  /\ ifs \in Seq(IfStatement)
  /\ \A j \in DOMAIN ifs : /\ Behind(ifs[j], ifs[j].elsePosition)
                           /\ Behind(ifs[j], ifs[j].endifPosition)
  /\ status = "run" => ifEntry \in 0..Len(ifs)
  /\ DOMAIN args = Slots /\ \A i \in Slots : ArgumentOK(args[i])
  /\ DOMAIN vars \subseteq Names /\ \A n \in DOMAIN vars : vars[n].readOnly \in BOOLEAN
  /\ interruptible \in BOOLEAN

\* In a script whose IFs are balanced, into which no GOTO jumps, and in which an ELSE
\* comes after no inner IF without one, each line leads where the nesting of IF, ELSE and
\* ENDIF says: the list that parseFileForIFStatements makes, its search and the flags that
\* runScript keeps in it lead to the same line as the structure of the text.
FollowsNesting ==
  [][status = "run" /\ WellNested /\ pc \in DOMAIN script
       /\ status' \notin {"done", "escaped", "booted", "halted"}
     => status' = "run" /\ pc' = Successor]_scriptVars

\* A text that decodeArgument allocated is in its slot until it is freed, once: the slots
\* outlive the line, with a type that stays when the text goes.  After the emergency
\* escape none is left, as the comment there says.
TextsAccounted ==
  /\ held = Cardinality(Texts(args))
  /\ status = "escaped" => held = 0

\* After x = a op b, x is a op b, though the line is read from its end and the operands
\* are told apart by their type.  Left out is a number minus or divided by something,
\* which runScript computes the wrong way round.
AssignmentComputes ==
  [][LET line == script[pc]
         x == line[1].name
         op == line[4].code
     IN /\ status = "run" /\ status' = "run" /\ pc \in DOMAIN script
        /\ Len(line) = 5 /\ line[1].kind = "name" /\ x \in DOMAIN vars
        /\ line[2] = Op(OPTYPE_EQ)
        /\ line[4].kind = "operator" /\ op \in OPTYPE_PLUS..OPTYPE_SHIFTDOWN
        /\ \A i \in {3, 5} : args'[i].type \in {"VARIABLE", "NUMERIC"}
        /\ op \in {OPTYPE_MINUS, OPTYPE_DIVIDE} => args'[3].type = "VARIABLE"
     => vars'[x].value = IF vars[x].readOnly THEN vars[x].value
                           ELSE Operate(op, args'[3].value, args'[5].value)]_scriptVars

(****************************************************************************)
(* Statements that do not hold, for which see the README.                   *)

\* Each balanced script follows its nesting.
AlwaysFollowsNesting ==
  [][status = "run" /\ Balanced /\ NoJumpIntoIf /\ pc \in DOMAIN script
       /\ status' \notin {"done", "escaped", "booted", "halted"}
     => status' = "run" /\ pc' = Successor]_scriptVars

\* A finished script leaves nothing on the heap.
NoTextLeft == status = "done" => held = 0

\* A running script can be interrupted.
StaysInterruptible == status = "run" => interruptible

=============================================================================
