------------------------------ MODULE Tokenizer ------------------------------
(*****************************************************************************)
(* tokenizer.cpp: from the characters of a file to its tokens.               *)
(*                                                                           *)
(* A source is a sequence of characters, in which a run of letters, digits   *)
(* and underscores is one element, a word: where a word ends is never in     *)
(* doubt.  The values of numbers are left out, and so are characters that    *)
(* begin nothing.                                                            *)
(*****************************************************************************)
EXTENDS Naturals, Sequences, FiniteSets

CONSTANT Digits  \* the words that begin with a digit

ASSUME DigitsAssumption == Digits \subseteq STRING

Keywords ==
  {"fn", "struct", "enum", "union", "return", "if", "else", "for", "in",
   "switch", "break", "continue", "defer", "import", "comptime", "asm", "const"}
OperatorKeywords == {"as", "bitcast"}

(* What the switch over the first characters recognises.  There is no "~=":   *)
(* its case compares a character that was read before.                       *)
Assignments ==
  {<<"+", "=">>, <<"-", "=">>, <<"*", "=">>, <<"/", "=">>, <<"%", "=">>,
   <<"|", "=">>, <<"&", "=">>, <<"<", "<", "=">>, <<">", ">", "=">>}
Operators ==
  {<<"=", "=">>, <<"+">>, <<"-">>, <<"*">>, <<"/">>, <<"%">>, <<"|">>,
   <<"|", "|">>, <<"^">>, <<"&">>, <<"&", "&">>, <<"<">>, <<"<", "<">>,
   <<"<", "=">>, <<">">>, <<">", ">">>, <<">", "=">>, <<".">>, <<"!">>,
   <<"!", "=">>, <<"~">>}
Symbols ==
  {<<"$">>, <<":">>, <<"@">>, <<";">>, <<",">>, <<"(">>, <<")">>, <<"{">>,
   <<"}">>, <<"[">>, <<"]">>, <<"=">>, <<"=", ">">>, <<"-", "-", "-">>,
   <<".", ".", "<">>, <<".", ".", "=">>}
Lexemes == Assignments \cup Operators \cup Symbols

Marks == UNION {{l[i] : i \in DOMAIN l} : l \in Lexemes} \cup {" ", "\n", "'", "\"", "eof"}

Char(s, i) == IF i \in DOMAIN s THEN s[i] ELSE "eof"
Text(s, from, to) ==
  LET joined[i \in from - 1 .. to] ==
        IF i < from THEN "" ELSE joined[i - 1] \o s[i]
  IN joined[to]
Lines(s, i) == 1 + Cardinality({j \in DOMAIN s : j < i /\ s[j] = "\n"})

(* The first place from i on where Stop holds; the end of the source counts. *)
Until(s, i, Stop(_)) ==
  CHOOSE j \in i .. Len(s) + 1 :
    /\ Char(s, j) = "eof" \/ Stop(j)
    /\ \A k \in i .. j - 1 : ~Stop(k)

Token(kind, text) == [kind |-> kind, text |-> text]
Read(token, next) == [token |-> token, next |-> next]
-------------------------------------------------------------------------------
(* The end of a comment is looked for past the end of the file as well.      *)
Unterminated(s) == Read(Token("hang", ""), Len(s) + 1)

LineComment(s, i) ==
  LET end == Until(s, i, LAMBDA j : Char(s, j) = "\n")
  IN IF Char(s, end) = "eof" THEN Unterminated(s)
     ELSE Read(Token("comment", ""), end + 1)

(* The first character of the text is not looked at, and neither is the one  *)
(* after a star: "**/" does not end a comment.                               *)
BlockComment(s, i) ==
  LET next[j \in i .. Len(s) + 2] ==
        IF j > Len(s) THEN Unterminated(s)
        ELSE IF Char(s, j) # "*" THEN next[j + 1]
        ELSE IF Char(s, j + 1) = "/" THEN Read(Token("comment", ""), j + 2)
        ELSE next[j + 2]
  IN next[i + 1]

Comment(s, i) ==
  LET text == IF Char(s, i + 2) = " " THEN i + 3 ELSE i + 2
  IN IF Char(s, i + 1) = "*" THEN BlockComment(s, text) ELSE LineComment(s, text)

(* A minus before a digit belongs to the number.                             *)
IsNumber(s, i) ==
  Char(s, i) \in Digits \/ (Char(s, i) = "-" /\ Char(s, i + 1) \in Digits)

Number(s, i) ==
  LET digits == IF Char(s, i) = "-" THEN i + 1 ELSE i
      Point(j) == Char(s, j) = "." /\ Char(s, j + 1) # "."
      point == Until(s, digits, LAMBDA j : Char(s, j) \notin Digits)
      end == IF Point(point)
             THEN Until(s, point + 1, LAMBDA j : Char(s, j) \notin Digits)
             ELSE point
  IN Read(Token(IF Point(point) THEN "float" ELSE "integer", Text(s, i, end - 1)), end)

(* A character that is not closed reads as the end of the file.              *)
Character(s, i) ==
  IF Char(s, i + 2) = "'" THEN Read(Token("char", Char(s, i + 1)), i + 3)
  ELSE Read(Token("eof", ""), i + 2)

String(s, i) ==
  LET end == Until(s, i + 1, LAMBDA j : Char(s, j) = "\"")
  IN IF Char(s, end) = "eof" THEN Unterminated(s)
     ELSE Read(Token("string", Text(s, i + 1, end - 1)), end + 1)

(* The longest lexeme that starts here.                                      *)
StartsWith(s, i, lexeme) == \A k \in DOMAIN lexeme : Char(s, i + k - 1) = lexeme[k]
LexemeKind(l) ==
  LET text == Text(l, 1, Len(l))
  IN CASE l = <<"$">> -> Token("comptime", "")
       [] l \in Operators -> Token("op", text)
       [] l \in Assignments -> Token("assignment", Text(l, 1, Len(l) - 1))
       [] OTHER -> Token(text, "")
ShortLexeme(s, i) ==  \* mutant: only the first character is looked at
  Read(LexemeKind(<<Char(s, i)>>), i + 1)
Lexeme(s, i) ==
  LET starting == {l \in Lexemes : StartsWith(s, i, l)}
      longest == CHOOSE l \in starting : \A k \in starting : Len(k) <= Len(l)
  IN Read(LexemeKind(longest), i + Len(longest))

Name(s, i) ==
  LET c == Char(s, i)
  IN CASE c \in Keywords -> Read(Token(c, ""), i + 1)
       [] c \in OperatorKeywords -> Read(Token("op", c), i + 1)
       [] OTHER -> Read(Token("name", c), i + 1)

NextAt(s, i) ==
  CASE Char(s, i) = "eof" -> Read(Token("eof", ""), i)
    [] Char(s, i) = "/" /\ Char(s, i + 1) \in {"/", "*"} -> Comment(s, i)
    [] IsNumber(s, i) -> Number(s, i)
    [] Char(s, i) = "'" -> Character(s, i)
    [] Char(s, i) = "\"" -> String(s, i)
    [] OTHER -> IF Char(s, i) \in Marks THEN Lexeme(s, i) ELSE Name(s, i)

next(s, i) ==
  LET start == Until(s, i, LAMBDA j : Char(s, j) \notin {" ", "\n"})
      read == NextAt(s, start)
  IN [read EXCEPT !.token = [kind |-> @.kind, text |-> @.text,
                             at |-> start, line |-> Lines(s, start)]]

(* The tokens that the parser gets one after the other, without the end.     *)
Tokens(s) ==
  LET rest[i \in 1 .. Len(s) + 2] ==
        LET read == next(s, i)
        IN IF read.token.kind \in {"eof", "hang"}
           THEN IF read.token.kind = "hang" THEN <<read.token>> ELSE <<>>
           ELSE <<read.token>> \o rest[read.next]
  IN rest[1]

===============================================================================
