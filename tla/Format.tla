-------------------------------- MODULE Format --------------------------------
(***************************************************************************)
(* Formatted output: printf of the stage 2 loader (boot/stage2/lib/        *)
(* print.c), which writes through the BIOS, and fvga_write of the kernel   *)
(* (kernel/drivers/video/vga.c), which writes to the screen driver.  Both  *)
(* walk the format string, one step per turn of a loop.                    *)
(*                                                                         *)
(* A call is made up of pieces: ordinary characters, and directives with   *)
(* the argument they take.  What the code sees is the format string and    *)
(* the list of arguments, which are words; a text is a sequence of         *)
(* characters.                                                             *)
(***************************************************************************)
EXTENDS Integers, Sequences

CONSTANTS
  WordMod,     \* 2^32
  Alphabet,    \* the characters
  Strings,     \* the text at each pointer; 0 is the null pointer
  Chars,       \* the character of each code
  Calls        \* the calls, as sequences of pieces

Consoles   == {"printf", "fvga_write"}
Directives == {"%", "c", "s", "d", "i", "u", "x", "q"}     \* q stands for any other
Takes(d)   == d \in {"c", "s", "d", "i", "u", "x"}

digits == <<"0", "1", "2", "3", "4", "5", "6", "7", "8", "9", "a", "b", "c", "d", "e", "f">>
null   == <<"(", "n", "u", "l", "l", ")">>

\* What the functions themselves print.
Own == Directives \cup {digits[i] : i \in DOMAIN digits} \cup {null[i] : i \in DOMAIN null}
         \cup {"-", "\r"}

\* The parts one after the other.
Concat(parts) ==
  LET concat[i \in 0 .. Len(parts)] == IF i = 0 THEN <<>> ELSE concat[i - 1] \o parts[i]
  IN concat[Len(parts)]

Text(c)         == [directive |-> "none", char |-> c, word |-> 0]
Directive(d, w) == [directive |-> d, char |-> "%", word |-> w]
LonePercent     == [directive |-> "end", char |-> "%", word |-> 0]    \* at the end only

Source(piece) ==
  IF piece.directive \in {"none", "end"} THEN <<piece.char>> ELSE <<"%", piece.directive>>
Argument(piece) == IF Takes(piece.directive) THEN <<piece.word>> ELSE <<>>

FormatOf(pieces)    == Concat([i \in DOMAIN pieces |-> Source(pieces[i])])
ArgumentsOf(pieces) == Concat([i \in DOMAIN pieces |-> Argument(pieces[i])])

Pieces == [directive : Directives \cup {"none", "end"}, char : Alphabet, word : 0 .. WordMod - 1]

\* The arguments are what the directive takes.
Proper(piece) ==
  /\ piece \in Pieces
  /\ piece.directive = "none" => piece.char # "%"
  /\ piece.directive = "end"  => piece.char = "%"
  /\ piece.directive = "c" => piece.word \in DOMAIN Chars /\ Chars[piece.word] \in Alphabet
  /\ piece.directive = "s" => piece.word = 0 \/ piece.word \in DOMAIN Strings

ASSUME FormatAssumption ==
  /\ WordMod \in Nat \ {0} /\ WordMod % 2 = 0
  /\ Own \subseteq Alphabet
  /\ 0 \notin DOMAIN Strings
  /\ \A p \in DOMAIN Strings : Strings[p] \in Seq(Alphabet)
  /\ \A pieces \in Calls :
       /\ pieces \in Seq(Pieces)
       /\ \A i \in DOMAIN pieces :
            Proper(pieces[i]) /\ (pieces[i].directive = "end" => i = Len(pieces))

VARIABLES
  console, call,     \* which function was called, and with what
  fmt, args,         \* what is left of the format and the arguments
  str,               \* what is left of a string argument
  value, base, buffer, \* in print_unsigned
  out, cnt, pc

number == <<value, base, buffer>>
vars   == <<console, call, fmt, args, str, number, out, cnt, pc>>

Init ==
  /\ console \in Consoles
  /\ call \in Calls
  /\ fmt = FormatOf(call) /\ args = ArgumentsOf(call)
  /\ str = <<>>
  /\ value = 0 /\ base = 10 /\ buffer = <<>>
  /\ out = <<>> /\ cnt = 0
  /\ pc = "scan"

-----------------------------------------------------------------------------
\* putchar of stage 2 puts a carriage return before a newline; the screen driver
\* takes the newline as it is.
putchar(c) == IF console = "printf" /\ c = "\n" THEN <<"\r", c>> ELSE <<c>>

Shown(text)  == Concat([i \in DOMAIN text |-> putchar(text[i])])
Prints(text) == out' = out \o Shown(text)

\* One turn of the loop of vprintf and vvga_write that prints text.
Writes(taken, text) ==
  /\ Prints(text)
  /\ cnt' = cnt + Len(text)
  /\ fmt' = SubSeq(fmt, taken + 1, Len(fmt))
  /\ UNCHANGED <<console, call, str, number, pc>>

\* The directive is done.
Advance == fmt' = SubSeq(fmt, 3, Len(fmt)) /\ pc' = "scan"

IsDirective(d) == pc = "scan" /\ Len(fmt) > 1 /\ fmt[1] = "%" /\ fmt[2] = d

ordinary ==
  /\ pc = "scan" /\ fmt # <<>> /\ fmt[1] # "%"
  /\ Writes(1, <<fmt[1]>>)
  /\ UNCHANGED args

percent == IsDirective("%") /\ Writes(2, <<"%">>) /\ UNCHANGED args

other == IsDirective("q") /\ Writes(2, <<"%", "q">>) /\ UNCHANGED args

char == IsDirective("c") /\ Writes(2, <<Chars[Head(args)]>>) /\ args' = Tail(args)

\* The format is over, or it ends with a lone %.
finish ==
  /\ pc = "scan" /\ fmt \in {<<>>, <<"%">>}
  /\ pc' = "returned"
  /\ UNCHANGED <<console, call, fmt, args, str, number, out, cnt>>

string ==
  /\ IsDirective("s")
  /\ str' = IF Head(args) = 0 THEN null ELSE Strings[Head(args)]
  /\ args' = Tail(args)
  /\ pc' = "string"
  /\ UNCHANGED <<console, call, fmt, number, out, cnt>>

string_next ==
  /\ pc = "string" /\ str # <<>>
  /\ Prints(<<Head(str)>>)
  /\ cnt' = cnt + 1
  /\ str' = Tail(str)
  /\ UNCHANGED <<console, call, fmt, args, number, pc>>

string_ends ==
  /\ pc = "string" /\ str = <<>>
  /\ Advance
  /\ UNCHANGED <<console, call, args, str, number, out, cnt>>

-----------------------------------------------------------------------------
(***************************************************************************)
(* print_signed and print_unsigned, vga_print_signed and                   *)
(* vga_print_unsigned.                                                     *)
(***************************************************************************)
Signed(w) == IF w < WordMod \div 2 THEN w ELSE w - WordMod

MutMagnitude(w) == IF Signed(w) < 0 THEN -(Signed(w) + 1) ELSE w
Magnitude(w) == IF Signed(w) < 0 THEN (-(Signed(w) + 1) + 1) % WordMod ELSE w

print_unsigned(v, b, sign) ==
  /\ Prints(sign)
  /\ cnt' = cnt + Len(sign)
  /\ value' = v /\ base' = b /\ buffer' = <<>>
  /\ args' = Tail(args)
  /\ pc' = "number"
  /\ UNCHANGED <<console, call, fmt, str>>

signed ==
  /\ IsDirective("d") \/ IsDirective("i")
  /\ print_unsigned(Magnitude(Head(args)), 10, IF Signed(Head(args)) < 0 THEN <<"-">> ELSE <<>>)

unsigned == IsDirective("u") /\ print_unsigned(Head(args), 10, <<>>)

hexadecimal ==
  /\ IsDirective("x")
  /\ print_unsigned(Head(args), 16, IF console = "fvga_write" THEN <<"0", "x">> ELSE <<>>)

\* For 0, print_unsigned returns what putchar returns, the code of the character;
\* vga_print_unsigned returns 1.
MutZeroCount == 0
ZeroCount == IF console = "printf" THEN 48 ELSE 1

number_zero ==
  /\ pc = "number" /\ value = 0 /\ buffer = <<>>
  /\ Prints(<<"0">>)
  /\ cnt' = cnt + ZeroCount
  /\ Advance
  /\ UNCHANGED <<console, call, args, str, number>>

number_digit ==
  /\ pc = "number" /\ value # 0
  /\ buffer' = Append(buffer, digits[(value % base) + 1])
  /\ value' = value \div base
  /\ UNCHANGED <<console, call, fmt, args, str, base, out, cnt, pc>>

number_print ==
  /\ pc = "number" /\ value = 0 /\ buffer # <<>>
  /\ Prints(<<buffer[Len(buffer)]>>)
  /\ cnt' = cnt + 1
  /\ buffer' = SubSeq(buffer, 1, Len(buffer) - 1)
  /\ IF Len(buffer) = 1 THEN Advance ELSE UNCHANGED <<fmt, pc>>
  /\ UNCHANGED <<console, call, args, str, value, base>>

returned == pc = "returned" /\ UNCHANGED vars

Next ==
  \/ ordinary \/ percent \/ other \/ char \/ finish
  \/ string \/ string_next \/ string_ends
  \/ signed \/ unsigned \/ hexadecimal
  \/ number_zero \/ number_digit \/ number_print
  \/ returned

Spec == Init /\ [][Next]_vars

-----------------------------------------------------------------------------
(***************************************************************************)
(* Properties.                                                             *)
(***************************************************************************)
Power(b, k) == LET power[i \in 0 .. k] == IF i = 0 THEN 1 ELSE b * power[i - 1] IN power[k]

\* The numeral of n in base b: the shortest sequence of digits with that value.
Numeral(n, b) ==
  LET len == CHOOSE k \in 1 .. n + 1 : Power(b, k) > n /\ (k = 1 \/ Power(b, k - 1) <= n)
  IN [i \in 1 .. len |-> digits[((n \div Power(b, len - i)) % b) + 1]]

Rendering(piece) ==
  LET d == piece.directive
      w == piece.word
  IN CASE d = "none" -> <<piece.char>>
       [] d = "end"  -> <<>>
       [] d = "%"    -> <<"%">>
       [] d = "c"    -> <<Chars[w]>>
       [] d = "s"    -> IF w = 0 THEN null ELSE Strings[w]
       [] d \in {"d", "i"} /\ Signed(w) >= 0 -> Numeral(w, 10)
       [] d \in {"d", "i"} /\ Signed(w) < 0  -> <<"-">> \o Numeral(WordMod - w, 10)
       [] d = "u"    -> Numeral(w, 10)
       [] d = "x"    -> (IF console = "printf" THEN <<>> ELSE <<"0", "x">>) \o Numeral(w, 16)
       [] OTHER      -> <<"%", d>>

Expected == Concat([i \in DOMAIN call |-> Rendering(call[i])])

\* Both formatters print each piece in its place: numbers in the shortest numeral
\* of their value, the most negative one included, and with every directive the
\* argument that belongs to it.  The loader puts a carriage return before every
\* newline and nowhere else.
RendersCall == pc = "returned" => out = Shown(Expected) /\ args = <<>>

\* fvga_write returns the number of characters it wrote.
CountExact == pc = "returned" /\ console = "fvga_write" => cnt = Len(out)
==============================================================================
