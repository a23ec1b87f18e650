---------------------------- MODULE JsonTokener ----------------------------
(* json-c/json_tokener.c: json_tokener_parse_ex takes one character after      *)
(* another through a stack of levels.  Every case of its switch is an action;  *)
(* "goto redo_char" leaves the character in c, ADVANCE_CHAR clears it.  The    *)
(* text is fed to the tokener in calls that may end anywhere.                  *)
EXTENDS Integers, Sequences, SequencesExt

CONSTANTS max_depth, NULL, NONE,
          json_null_str, json_nan_str, json_true_str, json_false_str, json_inf_str,
          Inputs    \* what there may be to feed: records [script, alphabet, limit, terminated, doc]

VARIABLES tok,      \* struct json_tokener
          c,        \* the character at hand, NONE when the next one is to be read
          num,      \* the locals of the number and escape_unicode states
          obj,      \* the local obj: the value of the level just left
          result,   \* "running", else what tok->err is when the call returns
          value,    \* the object returned
          text,     \* history: what was fed since the tokener was reset
          input,    \* what there is to feed: a script, or limit characters of an alphabet
          odd       \* history: where the verdict depends on more than the text ("cut": on
                    \* where a call ended; "word": on a word or escape before; "comment")

tokVars == <<tok, c, num, obj, result, value, text, input, odd>>

Space == {" ", "\n"}
Digit == {"0", "1"}
json_number_chars == Digit \cup {".", "+", "-", "e", "E"}
NUL == "NUL"        \* the end of a string that is passed with len = -1
\* Two letters stand for the four digits after \u, of which the first says what they make:
\* the high or the low half of a surrogate pair, or a character without another escape.
json_hex_chars == {"H", "L", "X"}
AllDigits == 2

json_tokener_reset_level ==
    [state |-> "eatws", saved_state |-> "start", current |-> NULL, obj_field_name |-> NULL]
\* got_hi_surrogate, with how far the low half was read: "look" and "slash" are the two
\* characters that are looked at ahead, "u" is behind them.
FreshLocals == [case_len |-> 0, is_exponent |-> FALSE, minus_at |-> 1, got_hi_surrogate |-> "no"]

\* Only the stack is reset; the other fields keep what the last text left there.
json_tokener_reset(tk) == [tk EXCEPT !.stack = <<json_tokener_reset_level>>]

json_tokener_new_ex(strict) ==
    [stack |-> <<json_tokener_reset_level>>, pb |-> << >>, quote_char |-> NULL,
     st_pos |-> 0, ucs_char |-> "X", is_double |-> FALSE, strict |-> strict]

TokInit == /\ tok \in {json_tokener_new_ex(strict) : strict \in BOOLEAN}
           /\ c = NONE /\ num = FreshLocals /\ obj = NULL /\ odd = {}
           /\ result = "running" /\ value = NULL /\ text = << >> /\ input \in Inputs

Top == Last(tok.stack)
depth == Len(tok.stack) - 1
Level(tk, st, saved) == [tk EXCEPT !.stack[Len(tk.stack)].state = st,
                                   !.stack[Len(tk.stack)].saved_state = saved]
Current(tk, v) == [tk EXCEPT !.stack[Len(tk.stack)].current = v]
Complete(tk, v) == Current(Level(tk, "eatws", "finish"), v)
Clear(tk) == [tk EXCEPT !.pb = << >>]
Add(tk, ch) == [tk EXCEPT !.pb = Append(@, ch)]

-----------------------------------------------------------------------------
\* out: the call returns; an object only when there was no error.
Return(tk, e) ==
    LET top == Last(tk.stack)
        err == IF c = NUL /\ "finish" \notin {top.state, top.saved_state} THEN "eof"
               ELSE IF c # NUL /\ top.state = "finish" /\ Len(tk.stack) = 1 /\ tk.strict
               THEN "unexpected" ELSE e
    IN /\ result' = err /\ c' = NONE
       /\ IF err = "success"
          THEN tok' = json_tokener_reset(tk) /\ value' = top.current
          ELSE tok' = tk /\ UNCHANGED value
Advance(tk) == IF c = NUL THEN Return(tk, "success")
               ELSE tok' = tk /\ c' = NONE /\ UNCHANGED <<result, value>>
Redo(tk) == tok' = tk /\ UNCHANGED <<c, result, value>>
At(st) == result = "running" /\ c # NONE /\ Top.state = st

eatws == /\ At("eatws")
         /\ IF c \in Space THEN Advance(tok)
            ELSE IF c = "/" /\ ~tok.strict
            THEN Advance(Level(Add(Clear(tok), c), "comment_start", Top.saved_state))
            ELSE Redo(Level(tok, Top.saved_state, Top.saved_state))

\* The first character of a value.
start ==
    LET To(st) == Level(Clear(tok), st, Top.saved_state)
    IN /\ At("start")
       /\ \/ c = "{" /\ Advance(Current(Level(tok, "eatws", "object_field_start"), <<"obj", << >>>>))
          \/ c = "[" /\ Advance(Current(Level(tok, "eatws", "array"), <<"arr", << >>>>))
          \/ c \in {"I", "i"} /\ Redo([To("inf") EXCEPT !.st_pos = 0])
          \/ c \in {"N", "n"} /\ Redo([To("null") EXCEPT !.st_pos = 0])
          \/ c \in {"T", "t", "F", "f"} /\ Redo([To("boolean") EXCEPT !.st_pos = 0])
          \/ (c = "\"" \/ (c = "'" /\ ~tok.strict)) /\ Advance([To("string") EXCEPT !.quote_char = c])
          \/ c \in Digit \cup {"-"} /\ Redo([To("number") EXCEPT !.is_double = FALSE])
          \/ /\ c \notin {"{", "[", "I", "i", "N", "n", "T", "t", "F", "f", "\"", "-"} \cup Digit
             /\ c # "'" \/ tok.strict
             /\ Return(tok, "unexpected")

finish == /\ At("finish")
          /\ \/ depth = 0 /\ Return(tok, "success") /\ UNCHANGED obj
             \/ depth > 0 /\ obj' = Top.current /\ Redo([tok EXCEPT !.stack = Front(@)])

-----------------------------------------------------------------------------
\* Words: the characters so far are compared with the beginning of the word, and
\* the character after the word ends it.
Lower(ch) == CASE ch = "N" -> "n" [] ch = "I" -> "i" [] ch = "T" -> "t" [] ch = "F" -> "f"
               [] ch = "A" -> "a" [] OTHER -> ch
Matches(word, s) ==
    LET n == IF tok.st_pos + 1 < Len(word) THEN tok.st_pos + 1 ELSE Len(word)
    IN /\ Len(s) >= n
       /\ \A i \in 1 .. n : s[i] = word[i] \/ (~tok.strict /\ Lower(s[i]) = Lower(word[i]))
Literal(word, s, v) ==
    /\ Matches(word, s)
    /\ IF tok.st_pos = Len(word) THEN Redo(Complete(Add(tok, c), v))
       ELSE Advance([Add(tok, c) EXCEPT !.st_pos = @ + 1])

\* st_pos was not reset when a number that begins with "-" turned out to be this.
inf == LET buf == Append(tok.pb, c)
           negative == Head(buf) = "-"
           infbuf == IF negative THEN Tail(buf) ELSE buf
       IN /\ At("inf")
          /\ \/ Literal(json_inf_str, infbuf, <<"inf", negative>>)
             \/ ~Matches(json_inf_str, infbuf) /\ Return(tok, "unexpected")

null == LET buf == Append(tok.pb, c)
        IN /\ At("null")
           /\ \/ Literal(json_null_str, buf, <<"null">>)
              \/ ~Matches(json_null_str, buf) /\ Literal(json_nan_str, buf, <<"nan">>)
              \/ ~Matches(json_null_str, buf) /\ ~Matches(json_nan_str, buf) /\ Return(tok, "null")

boolean == LET buf == Append(tok.pb, c)
           IN /\ At("boolean")
              /\ \/ Literal(json_true_str, buf, <<"bool", TRUE>>)
                 \/ ~Matches(json_true_str, buf) /\ Literal(json_false_str, buf, <<"bool", FALSE>>)
                 \/ ~Matches(json_true_str, buf) /\ ~Matches(json_false_str, buf) /\ Return(tok, "boolean")

\* Comments.  A star is read together with the character after it, whatever that is.
comment_start == /\ At("comment_start")
                 /\ IF c = "*" THEN Advance(Level(tok, "comment", Top.saved_state))
                    ELSE IF c = "/" THEN Advance(Level(tok, "comment_eol", Top.saved_state))
                    ELSE Return(tok, "comment")
comment == /\ At("comment")
           /\ Advance(IF c = "*" THEN Level(tok, "comment_end", Top.saved_state) ELSE tok)
comment_end == /\ At("comment_end")
               /\ Advance(Level(tok, IF c = "/" THEN "eatws" ELSE "comment", Top.saved_state))
comment_eol == /\ At("comment_eol")
               /\ Advance(IF c = "\n" THEN Level(tok, "eatws", Top.saved_state) ELSE tok)

\* Strings and field names, with the escapes common to both.
string == /\ At("string")
          /\ IF c = tok.quote_char THEN Advance(Complete(tok, <<"str", tok.pb>>))
             ELSE IF c = "\\" THEN Advance(Level(tok, "string_escape", "string"))
             ELSE Advance(Add(tok, c))
object_field == /\ At("object_field")
                /\ IF c = tok.quote_char
                   THEN Advance([Level(tok, "eatws", "object_field_end")
                                 EXCEPT !.stack[Len(tok.stack)].obj_field_name = tok.pb])
                   ELSE IF c = "\\" THEN Advance(Level(tok, "string_escape", "object_field"))
                   ELSE Advance(Add(tok, c))

Back(tk) == Level(tk, Top.saved_state, Top.saved_state)
Escapes == [n |-> "\n", t |-> "\t", f |-> "\f", r |-> "\r", b |-> "BS"]
string_escape ==
    /\ At("string_escape")
    /\ IF c \in {"\"", "\\", "/"} THEN Advance(Add(Back(tok), c))
       ELSE IF c \in DOMAIN Escapes THEN Advance(Add(Back(tok), Escapes[c]))
       ELSE IF c = "u" THEN Advance([Level(tok, "escape_unicode", Top.saved_state)
                                     EXCEPT !.st_pos = 0, !.ucs_char = "X"])
       ELSE Return(tok, "string")

\* The digits of \u.  strchr finds the end of the digits for NUL.  Once st_pos is past the
\* last digit, as after a call that ended behind the \u of a low half, it never meets it again.
Unit(tk, u) == Add(Back(tk), IF u = "X" THEN "CTRL" ELSE "REPL")
Escaped(u) ==
    LET paired == num.got_hi_surrogate \in {"u", "low"}
        t1 == [tok EXCEPT !.st_pos = AllDigits, !.ucs_char = u]
        t2 == IF paired THEN Add(t1, "REPL") ELSE t1
        Hold(h) == num' = [num EXCEPT !.got_hi_surrogate = h]
    IN IF paired /\ u = "L" THEN Advance(Add(Back(t1), "PAIR")) /\ Hold("no")
       ELSE IF u = "H" THEN Advance(t2) /\ Hold("look")
       ELSE Advance(Unit(t2, u)) /\ Hold("no")
escape_unicode ==
    LET pos == IF num.got_hi_surrogate = "u" THEN 0 ELSE tok.st_pos
        u == IF pos = 0 THEN c ELSE tok.ucs_char
        after == IF pos > AllDigits THEN pos ELSE pos + 1
    IN /\ At("escape_unicode") /\ num.got_hi_surrogate \notin {"look", "slash"}
       /\ IF c \notin json_hex_chars \cup {NUL} THEN Return(tok, "string") /\ UNCHANGED num
          ELSE IF c \in json_hex_chars /\ after = AllDigits THEN Escaped(u)
          ELSE /\ Advance([tok EXCEPT !.st_pos = after, !.ucs_char = u])
               /\ num' = [num EXCEPT !.got_hi_surrogate = IF @ = "u" THEN "low" ELSE @]

\* Behind a high half \u is looked for; without it the half is replaced and what is there
\* instead is read as the rest of the string.
GivenUp == CASE num.got_hi_surrogate = "no" -> tok
             [] num.got_hi_surrogate = "look" -> Unit(tok, "H")
             [] num.got_hi_surrogate = "slash" -> Level(Unit(tok, "H"), "string_escape", Top.saved_state)
             [] OTHER -> Add(tok, "REPL")
surrogate ==
    LET awaited == IF num.got_hi_surrogate = "look" THEN "\\" ELSE "u"
    IN /\ At("escape_unicode") /\ num.got_hi_surrogate \in {"look", "slash"}
       /\ IF c = awaited
          THEN Advance(tok) /\ num' = [num EXCEPT !.got_hi_surrogate = IF @ = "look" THEN "slash" ELSE "u"]
          ELSE Redo(GivenUp) /\ num' = [num EXCEPT !.got_hi_surrogate = "no"]

-----------------------------------------------------------------------------
\* Numbers: the characters are gathered under checks on the sign and the exponent.
number == /\ At("number") /\ c \in json_number_chars
          /\ LET n == num.case_len + 1
                 misplaced == \/ c = "." /\ tok.is_double
                              \/ c \in {"e", "E"} /\ num.is_exponent
                              \/ c = "-" /\ n # num.minus_at
             IN IF misplaced THEN Return(tok, "number") /\ UNCHANGED num
                ELSE /\ num' = [num EXCEPT !.case_len = n, !.is_exponent = @ \/ c \in {"e", "E"},
                                       !.minus_at = IF c \in {"e", "E"} THEN n + 1 ELSE @]
                     /\ Advance([Add(tok, c) EXCEPT !.is_double = @ \/ c \in {".", "e", "E"}])

\* sscanf: an integer is the sign and the digits at the beginning; a double needs a
\* digit before an exponent or a plus.
Mantissa(s) == LET i == SelectInSeq(s, LAMBDA ch : ch \in {"e", "E", "+"})
               IN IF i = 0 THEN s ELSE SubSeq(s, 1, i - 1)
json_parse_int64(s) ==
    LET i == SelectInSeq(Tail(s), LAMBDA ch : ch \notin Digit) IN IF i = 0 THEN s ELSE SubSeq(s, 1, i)
HasDigit(s) == \E i \in 1 .. Len(s) : s[i] \in Digit

number_end ==
    LET s == tok.pb
        int == json_parse_int64(s)
        leading_zero == s[1] = "0" /\ "1" \in {int[i] : i \in 1 .. Len(int)}
    IN /\ At("number") /\ c \notin json_number_chars /\ num' = FreshLocals
       /\ odd' = IF s[1] = "-" /\ c \in {"i", "I"} /\ tok.st_pos # 0 THEN odd \cup {"word"} ELSE odd
       /\ IF s[1] = "-" /\ num.case_len = 1 /\ c \in {"i", "I"}
          THEN Redo(Level(tok, "inf", Top.saved_state))
          ELSE IF tok.is_double /\ HasDigit(Mantissa(s)) THEN Redo(Complete(tok, <<"double", s>>))
          ELSE IF ~tok.is_double /\ HasDigit(int) /\ ~(tok.strict /\ leading_zero)
          THEN Redo(Complete(tok, <<"int", int>>))
          ELSE Return(tok, "number")

-----------------------------------------------------------------------------
\* Mutant: a level more than the stack has.
PushTooDeep(st) ==
    IF depth >= max_depth THEN Return(tok, "depth")
    ELSE Redo([Level(tok, st, Top.saved_state) EXCEPT !.stack = Append(@, json_tokener_reset_level)])

\* Arrays and objects.  A level is pushed for each value.
Push(st) ==
    IF depth >= max_depth - 1 THEN Return(tok, "depth")
    ELSE Redo([Level(tok, st, Top.saved_state) EXCEPT !.stack = Append(@, json_tokener_reset_level)])

array == /\ At("array") \/ At("array_after_sep")
         /\ IF c # "]" THEN Push("array_add")
            ELSE IF Top.state = "array_after_sep" /\ tok.strict THEN Return(tok, "unexpected")
            ELSE Advance(Level(tok, "eatws", "finish"))
array_add == /\ At("array_add")
             /\ Redo(Current(Level(tok, "eatws", "array_sep"), <<"arr", Append(Top.current[2], obj)>>))
array_sep == /\ At("array_sep")
             /\ IF c = "]" THEN Advance(Level(tok, "eatws", "finish"))
                ELSE IF c = "," THEN Advance(Level(tok, "eatws", "array_after_sep"))
                ELSE Return(tok, "array")

object_field_start ==
    /\ At("object_field_start") \/ At("object_field_start_after_sep")
    /\ IF c = "}"
       THEN IF Top.state = "object_field_start_after_sep" /\ tok.strict THEN Return(tok, "unexpected")
            ELSE Advance(Level(tok, "eatws", "finish"))
       ELSE IF c \in {"\"", "'"}
       THEN Advance([Level(Clear(tok), "object_field", Top.saved_state) EXCEPT !.quote_char = c])
       ELSE Return(tok, "object_key_name")
object_field_end == /\ At("object_field_end")
                    /\ IF c = ":" THEN Advance(Level(tok, "eatws", "object_value"))
                       ELSE Return(tok, "object_key_sep")
object_value == At("object_value") /\ Push("object_value_add")

\* json_object_object_add: a name that is there already keeps its place.
Bind(fields, k, v) ==
    LET i == SelectInSeq(fields, LAMBDA f : f[1] = k)
    IN IF i = 0 THEN Append(fields, <<k, v>>) ELSE [fields EXCEPT ![i] = <<k, v>>]
object_value_add ==
    /\ At("object_value_add")
    /\ Redo([Current(Level(tok, "eatws", "object_sep"),
                     <<"obj", Bind(Top.current[2], Top.obj_field_name, obj)>>)
             EXCEPT !.stack[Len(tok.stack)].obj_field_name = NULL])
object_sep == /\ At("object_sep")
              /\ IF c = "}" THEN Advance(Level(tok, "eatws", "finish"))
                 ELSE IF c = "," THEN Advance(Level(tok, "eatws", "object_field_start_after_sep"))
                 ELSE Return(tok, "object_value_sep")

-----------------------------------------------------------------------------
\* PEEK_CHAR: the next character, or the end of what this call was given, where a high
\* half is given up: got_hi_surrogate is a local.
Feedable == IF input.script # << >> THEN {Head(input.script)} ELSE input.alphabet
Peek == /\ result = "running" /\ c = NONE
        /\ \E ch \in Feedable :
             /\ Len(text) < input.limit \/ ch = NUL
             /\ c' = ch /\ text' = Append(text, ch)
             /\ input' = [input EXCEPT !.script = IF @ = << >> THEN @ ELSE Tail(@)]
        /\ UNCHANGED <<tok, num, obj, result, value, odd>>
EndOfData == /\ result = "running" /\ c = NONE /\ ~input.terminated
             /\ Return(GivenUp, IF depth = 0 /\ Top.state = "eatws" /\ Top.saved_state = "finish"
                                THEN "success" ELSE "continue")
             /\ UNCHANGED <<num, obj, text, input, odd>>

\* The caller goes on with more text, with fresh locals.
json_tokener_parse_ex == /\ result = "continue" /\ Len(text) < input.limit
                         /\ result' = "running" /\ num' = FreshLocals /\ obj' = NULL
                         /\ odd' = IF Top.state = "number" \/ num.got_hi_surrogate # "no"
                                   THEN odd \cup {"cut"} ELSE odd
                         /\ UNCHANGED <<tok, c, value, text, input>>

\* The caller resets the tokener and parses another text with it.
Reuse == /\ result \notin {"running", "continue"} /\ input.doc = NULL
         /\ Len(text) < input.limit
         /\ tok' = json_tokener_reset(tok) /\ result' = "running" /\ num' = FreshLocals
         /\ obj' = NULL /\ value' = NULL /\ text' = << >> /\ odd' = {}
         /\ input' = [input EXCEPT !.limit = @ - Len(text)]
         /\ UNCHANGED c

Character ==
    /\ UNCHANGED <<text, input>>
    /\ \/ finish /\ UNCHANGED <<num, odd>>
       \/ (number \/ escape_unicode \/ surrogate) /\ UNCHANGED <<obj, odd>>
       \/ number_end /\ UNCHANGED obj
       \/ /\ comment \/ comment_end \/ comment_eol
          /\ odd' = IF c = NUL /\ depth > 0 THEN odd \cup {"comment"} ELSE odd
          /\ UNCHANGED <<num, obj>>
       \/ /\ \/ eatws \/ start \/ inf \/ null \/ boolean \/ string \/ string_escape
             \/ comment_start \/ array \/ array_add \/ array_sep
             \/ object_field_start \/ object_field \/ object_field_end \/ object_value
             \/ object_value_add \/ object_sep
          /\ UNCHANGED <<num, obj, odd>>

TokNext == Character \/ Peek \/ EndOfData \/ json_tokener_parse_ex \/ Reuse
=============================================================================
