------------------------------- MODULE Printf --------------------------------
(***************************************************************************)
(* Formatted output. __printfImpl walks the format once to count the bytes *)
(* of the text, takes a block of that size, lets __sprintfImpl walk it     *)
(* again to write them, sends the block and frees it. Both passes read the *)
(* arguments through pointers, so another task may change one in between.  *)
(* An integer of WIDTH bits is [kind |-> "int" or "uint", bits |-> WIDTH,  *)
(* v |-> its value]; the width of the device's int is IntBits.             *)
(***************************************************************************)
EXTENDS FixedPoint, FiniteSets

CONSTANTS
  IntBits,      \* narrower types are widened to this one in expressions
  Formats,      \* sequences over "open" and "close", the braces, "X" and other characters
  Arguments     \* sequences of arguments

\* One is a power of two; what a type holds decides the sign of its values.
ASSUME PrintfAssumption ==
  /\ IntBits \in Nat /\ One \in Nat \ {0}
  /\ \A f \in Formats : f \in Seq(STRING)
  /\ \A as \in Arguments :
       /\ as \in Seq([kind : {"int", "uint", "fixed", "text", "none"}, bits : Nat, v : Int])
       /\ \A i \in DOMAIN as : as[i].kind \in {"uint", "text"} => as[i].v >= 0

VARIABLES
  pass,         \* "count", "write", "free", "done"
  format, args,
  at, arg, modifier,   \* place in the format, next argument, what {X} left behind
  total, dst,   \* bytes counted, bytes written
  block,        \* size of the block, -1 while there is none
  rewritten,    \* another task changed an argument between the passes
  printed, result

printfVars == <<pass, format, args, at, arg, modifier, total, dst, block, rewritten, printed, result>>

-----------------------------------------------------------------------------
\* The decimal digits of n, none of 0; the powers of ten up to the longest
\* number are those up to IntBits.
Digits(n) == Cardinality({d \in 0..IntBits : 10^d <= n})

\* The comparison with T(1) << bits is made in int: for a type narrower than
\* int the left side is positive, and no value equals it.
IsLeast(a) == a.bits >= IntBits /\ a.v = -(2^(a.bits - 1))

HexSize(a) == a.bits \div 4

\* Variant: the sign of an integer is not counted.
DigitCountUnsigned(a) ==
  IF a.kind = "fixed" THEN 5 + (IF ToInt(a.v) > 0 THEN Digits(ToInt(a.v)) ELSE 1)
  ELSE IF a.v = 0 THEN 1 ELSE Digits(Magnitude(a.v))

\* digitCount: the least number of a type is counted without its sign, and
\* a fixed point number below zero without its digits.
DigitCount(a) ==
  IF a.kind = "fixed"
  THEN 5 + (IF ToInt(a.v) > 0 THEN Digits(ToInt(a.v)) ELSE 1)
  ELSE IF a.v = 0 THEN 1
  ELSE Digits(Magnitude(a.v)) + (IF a.v < 0 /\ ~IsLeast(a) THEN 1 ELSE 0)

\* toBuf: the sign, the digits, a point and four decimals.
ToBuf(a) ==
  IF a.kind = "fixed"
  THEN 5 + (IF ToInt(a.v) = 0 THEN 1
            ELSE Digits(Magnitude(ToInt(a.v))) + (IF ToInt(a.v) < 0 THEN 1 ELSE 0))
  ELSE IF a.v = 0 THEN 1 ELSE Digits(Magnitude(a.v)) + (IF a.v < 0 THEN 1 ELSE 0)

(***************************************************************************)
(* argTypeV gives a string constant the type of its array, which is none   *)
(* of the list: it is skipped. A pointer to char is "text", and its text   *)
(* is what lies at the address of the pointer itself.                      *)
(***************************************************************************)
Emitted(a, hex) ==
  CASE a.kind = "none" -> 0
    [] a.kind = "text" -> a.v
    [] OTHER -> IF hex THEN HexSize(a) ELSE IF pass = "count" THEN DigitCount(a) ELSE ToBuf(a)

-----------------------------------------------------------------------------
PrintfInit ==
  /\ pass = "count" /\ at = 1 /\ arg = 1 /\ modifier = "none"
  /\ format \in Formats /\ args \in Arguments
  /\ total = 0 /\ dst = 0 /\ block = -1
  /\ rewritten = FALSE /\ printed = FALSE /\ result = 0

\* A brace opens a placeholder unless it is the last character, or the one
\* before the last and not followed by the closing brace: the condition
\* that should look for the brace after a modifier is never reached.
Opens(i) ==
  /\ i + 1 <= Len(format) /\ format[i] = "open"
  /\ format[i + 1] = "close" \/ i + 2 <= Len(format)

\* One round of the loop both passes share; count is what it adds for an argument.
Walk(count) ==
  /\ at <= Len(format)
  /\ IF ~Opens(at)
     THEN /\ count' = count + 1 /\ at' = at + 1
          /\ UNCHANGED <<arg, modifier>>
     ELSE LET long == format[at + 1] # "close"
              mod == IF long THEN format[at + 1] ELSE modifier
          IN  /\ modifier' = mod
              /\ at' = at + (IF long THEN 3 ELSE 2)
              /\ IF arg > Len(args) THEN UNCHANGED <<count, arg>>
                 ELSE /\ count' = count + Emitted(args[arg], mod = "X")
                      /\ arg' = arg + 1
  /\ UNCHANGED <<pass, format, args, block, rewritten, printed, result>>

Count == pass = "count" /\ Walk(total) /\ UNCHANGED dst
Write == pass = "write" /\ Walk(dst) /\ UNCHANGED total

\* malloc gives a block of the size asked for or none.
Malloc ==
  /\ pass = "count" /\ at > Len(format)
  /\ total' = total + 1
  /\ \/ block' = total + 1 /\ pass' = "write" /\ result' = result
     \/ block' = -1 /\ pass' = "done" /\ result' = -1
  /\ at' = 1 /\ arg' = 1 /\ modifier' = "none"
  /\ UNCHANGED <<format, args, dst, rewritten, printed>>

\* The terminator, then the block goes to the UART and back to the heap.
Finish ==
  /\ pass = "write" /\ at > Len(format)
  /\ pass' = "free" /\ printed' = TRUE
  /\ UNCHANGED <<format, args, at, arg, modifier, total, dst, block, rewritten, result>>

Free ==
  /\ pass = "free"
  /\ pass' = "done" /\ block' = -1 /\ result' = dst
  /\ UNCHANGED <<format, args, at, arg, modifier, total, dst, rewritten, printed>>

\* Another task writes the variable behind an argument.
Rewrite ==
  /\ pass \in {"count", "write"} /\ ~rewritten
  /\ args' \in Arguments
  /\ Len(args') = Len(args)
  /\ \A i \in DOMAIN args : args'[i].kind = args[i].kind /\ args'[i].bits = args[i].bits
  /\ rewritten' = TRUE
  /\ UNCHANGED <<pass, format, at, arg, modifier, total, dst, block, printed, result>>

PrintfNext == Count \/ Malloc \/ Write \/ Finish \/ Free \/ Rewrite

PrintfSpec == PrintfInit /\ [][PrintfNext]_printfVars

-----------------------------------------------------------------------------
PrintfTypeOK ==
  /\ pass \in {"count", "write", "free", "done"}
  /\ format \in Formats /\ at \in 1..Len(format) + 1 /\ arg \in 1..Len(args) + 1
  /\ total \in Nat /\ dst \in Nat /\ block \in Nat \cup {-1}
  /\ rewritten \in BOOLEAN /\ printed \in BOOLEAN /\ result \in Nat \cup {-1}

\* The numbers whose digits the first pass is known to undercount.
Undercounted(a) == \/ a.kind = "int" /\ IsLeast(a)
                   \/ a.kind = "fixed" /\ ToInt(a.v) < 0

(***************************************************************************)
(* The two passes agree: the block holds every byte written so far and the *)
(* terminator, and in the end nothing is left over. Left out are the       *)
(* numbers that are undercounted and an argument that changed in between.  *)
(***************************************************************************)
PrintfFits ==
  (/\ ~rewritten
   /\ \A i \in DOMAIN args : ~Undercounted(args[i])) =>
     /\ pass \in {"write", "free"} => dst + 1 <= block
     /\ pass = "free" => dst + 1 = block

TextSound == PrintfTypeOK /\ PrintfFits
=============================================================================
