---------------------------- MODULE JsonGrammar ----------------------------
(* The texts json_tokener_parse_ex accepts, as a grammar read by recursive     *)
(* descent, and the texts json_object_to_json_string_ext writes: what the      *)
(* tokener is compared with.                                                   *)
EXTENDS JsonTokener

Ok(i, v) == [st |-> "ok", next |-> i, v |-> v]
More == [st |-> "more"]    \* the text may go on to be right
Bad == [st |-> "bad"]

\* What follows x, when x is right so far; and when the text goes on after it.
After(x, Rest(_)) == IF x.st = "ok" THEN Rest(x) ELSE x
AfterMore(s, x, Rest(_)) == After(x, LAMBDA y : IF y.next > Len(s) THEN More ELSE Rest(y))

\* After blanks and comments from position i on.
RECURSIVE Skip(_, _, _), InComment(_, _, _)
InComment(s, i, strict) ==
    IF i > Len(s) \/ (s[i] = "*" /\ i = Len(s)) THEN More
    ELSE IF s[i] # "*" THEN InComment(s, i + 1, strict)
    ELSE IF s[i + 1] = "/" THEN Skip(s, i + 2, strict) ELSE InComment(s, i + 2, strict)
Skip(s, i, strict) ==
    LET eol == SelectInSubSeq(s, i, Len(s), LAMBDA ch : ch = "\n")
    IN IF i > Len(s) THEN Ok(i, NULL)
       ELSE IF s[i] \in Space THEN Skip(s, i + 1, strict)
       ELSE IF s[i] # "/" \/ strict THEN Ok(i, NULL)
       ELSE IF i = Len(s) THEN More
       ELSE IF s[i + 1] = "*" THEN InComment(s, i + 2, strict)
       ELSE IF s[i + 1] # "/" THEN Bad
       ELSE IF eol = 0 THEN More ELSE Skip(s, eol + 1, strict)

\* A word counts when a character follows it.
Words == {<<json_null_str, <<"null">>>>, <<json_nan_str, <<"nan">>>>, <<json_inf_str, <<"inf", FALSE>>>>,
          <<json_true_str, <<"bool", TRUE>>>>, <<json_false_str, <<"bool", FALSE>>>>}
Spells(s, i, w, strict) ==
    \A k \in 1 .. Len(w) : i + k - 1 <= Len(s) =>
        s[i + k - 1] = w[k] \/ (~strict /\ Lower(s[i + k - 1]) = Lower(w[k]))
Word(s, i, strict) ==
    LET fit == {w \in Words : Spells(s, i, w[1], strict)}
        complete == {w \in fit : i + Len(w[1]) <= Len(s)}
    IN IF complete # {} THEN LET w == CHOOSE x \in complete : TRUE IN Ok(i + Len(w[1]), w[2])
       ELSE IF fit # {} THEN More ELSE Bad

\* A number is a run of number characters, of which an integer takes the digits
\* it begins with.
Number(s, i, strict) ==
    LET end == SelectInSubSeq(s, i, Len(s), LAMBDA ch : ch \notin json_number_chars)
        run == SubSeq(s, i, IF end = 0 THEN Len(s) ELSE end - 1)
        Before(k, set) == \E j \in 1 .. k - 1 : run[j] \in set
        misplaced == \E k \in 1 .. Len(run) :
            \/ run[k] = "-" /\ k > 1 /\ run[k - 1] \notin {"e", "E"}
            \/ run[k] = "." /\ Before(k, {".", "e", "E"})
            \/ run[k] \in {"e", "E"} /\ Before(k, {"e", "E"})
        isDouble == Before(Len(run) + 1, {".", "e", "E"})
        digits == CHOOSE n \in 1 .. Len(run) :
            /\ \A k \in 2 .. n : run[k] \in Digit
            /\ n = Len(run) \/ run[n + 1] \notin Digit
    IN IF misplaced THEN Bad
       ELSE IF end = 0 THEN More
       ELSE IF run = <<"-">> /\ s[end] \in {"I", "i"}
       THEN After(Word(s, end, strict), LAMBDA w : Ok(w.next, <<"inf", TRUE>>))
       ELSE IF isDouble
       THEN IF HasDigit(Mantissa(run)) THEN Ok(end, <<"double", run>>) ELSE Bad
       ELSE IF ~HasDigit(SubSeq(run, 1, digits)) THEN Bad
       ELSE IF strict /\ run[1] = "0" /\ \E k \in 1 .. digits : run[k] = "1" THEN Bad
       ELSE Ok(end, <<"int", SubSeq(run, 1, digits)>>)

\* Each half of a pair without the other one is replaced.
LowHalf(s, i) == i + 3 <= Len(s) /\ SubSeq(s, i, i + 2) = <<"\\", "u", "L">> /\ s[i + 3] \in json_hex_chars
RECURSIVE Chars(_, _, _, _)
Chars(s, i, quote, read) ==
    IF i > Len(s) THEN More
    ELSE IF s[i] = quote THEN Ok(i + 1, read)
    ELSE IF s[i] # "\\" THEN Chars(s, i + 1, quote, Append(read, s[i]))
    ELSE IF i + 1 > Len(s) THEN More
    ELSE IF s[i + 1] \in {"\"", "\\", "/"} THEN Chars(s, i + 2, quote, Append(read, s[i + 1]))
    ELSE IF s[i + 1] \in DOMAIN Escapes THEN Chars(s, i + 2, quote, Append(read, Escapes[s[i + 1]]))
    ELSE IF s[i + 1] # "u" \/ \E k \in {i + 2, i + 3} : k <= Len(s) /\ s[k] \notin json_hex_chars THEN Bad
    ELSE IF i + 3 > Len(s) THEN More
    ELSE IF s[i + 2] = "X" THEN Chars(s, i + 4, quote, Append(read, "CTRL"))
    ELSE IF LowHalf(s, i + 4) /\ s[i + 2] = "H" THEN Chars(s, i + 8, quote, Append(read, "PAIR"))
    ELSE Chars(s, i + 4, quote, Append(read, "REPL"))

\* A value at position i in d arrays and objects; the elements of an array and the
\* fields of an object from position i on, after those already read.
RECURSIVE JsonValue(_, _, _, _), Elements(_, _, _, _, _), Fields(_, _, _, _, _)
JsonValue(s, i, d, strict) ==
    IF i > Len(s) THEN More
    ELSE IF s[i] = "[" THEN Elements(s, i + 1, d, << >>, strict)
    ELSE IF s[i] = "{" THEN Fields(s, i + 1, d, << >>, strict)
    ELSE IF s[i] = "\"" \/ (s[i] = "'" /\ ~strict)
    THEN After(Chars(s, i + 1, s[i], << >>), LAMBDA r : Ok(r.next, <<"str", r.v>>))
    ELSE IF s[i] \in Digit \cup {"-"} THEN Number(s, i, strict)
    ELSE Word(s, i, strict)

\* The value after the blanks at i, then Then of it and what comes after more blanks.
Nested(s, i, d, strict, Then(_, _)) ==
    AfterMore(s, Skip(s, i, strict), LAMBDA a :
        IF d >= max_depth - 1 THEN Bad
        ELSE After(JsonValue(s, a.next, d + 1, strict), LAMBDA r :
                   AfterMore(s, Skip(s, r.next, strict), LAMBDA b : Then(r.v, b.next))))

\* The closing bracket, which strict mode refuses after a comma.
Close(i, v, strict) == IF strict /\ v[2] # << >> THEN Bad ELSE Ok(i + 1, v)

Elements(s, i, d, read, strict) ==
    AfterMore(s, Skip(s, i, strict), LAMBDA a :
        IF s[a.next] = "]" THEN Close(a.next, <<"arr", read>>, strict)
        ELSE Nested(s, i, d, strict, LAMBDA v, n :
               IF s[n] = "]" THEN Ok(n + 1, <<"arr", Append(read, v)>>)
               ELSE IF s[n] = "," THEN Elements(s, n + 1, d, Append(read, v), strict) ELSE Bad))

OneField(s, i, d, read, strict) ==
    After(Chars(s, i + 1, s[i], << >>), LAMBDA k :
        AfterMore(s, Skip(s, k.next, strict), LAMBDA colon :
            IF s[colon.next] # ":" THEN Bad
            ELSE Nested(s, colon.next + 1, d, strict, LAMBDA v, n :
                   IF s[n] = "}" THEN Ok(n + 1, <<"obj", Bind(read, k.v, v)>>)
                   ELSE IF s[n] = "," THEN Fields(s, n + 1, d, Bind(read, k.v, v), strict) ELSE Bad)))

Fields(s, i, d, read, strict) ==
    AfterMore(s, Skip(s, i, strict), LAMBDA a :
        IF s[a.next] = "}" THEN Close(a.next, <<"obj", read>>, strict)
        ELSE IF s[a.next] \in {"\"", "'"} THEN OneField(s, a.next, d, read, strict) ELSE Bad)

\* A text: what follows the value is an error in strict mode only.
Document(s, strict) ==
    LET terminated == s # << >> /\ Last(s) = NUL
        Verdict(x) == IF x.st = "more" /\ terminated THEN Bad ELSE x
        Behind(r, b) ==
            IF b.st = "bad" \/ (b.st = "more" /\ ~terminated) THEN b
            ELSE IF b.st = "ok" /\ b.next <= Len(s) /\ s[b.next] # NUL /\ strict THEN Bad
            ELSE r
        Read(r) == IF r.st = "ok" THEN Behind(r, Skip(s, r.next, strict)) ELSE Verdict(r)
        Begin(a) == IF a.st = "ok" THEN Read(JsonValue(s, a.next, 0, strict)) ELSE Verdict(a)
    IN Begin(Skip(s, 1, strict))

-----------------------------------------------------------------------------
\* Mutant: a backslash in a string is written as it is.
EscapesQuotesOnly(str) ==
    FlattenSeq([i \in 1 .. Len(str) |->
        IF str[i] \in {"\"", "/"} THEN <<"\\", str[i]>>
        ELSE IF \E e \in DOMAIN Escapes : Escapes[e] = str[i]
        THEN <<"\\", CHOOSE e \in DOMAIN Escapes : Escapes[e] = str[i]>>
        ELSE IF str[i] = "CTRL" THEN <<"\\", "u", "X", "X">> ELSE <<str[i]>>])

json_escape_str(str) ==
    FlattenSeq([i \in 1 .. Len(str) |->
        IF str[i] \in {"\"", "\\", "/"} THEN <<"\\", str[i]>>
        ELSE IF \E e \in DOMAIN Escapes : Escapes[e] = str[i]
        THEN <<"\\", CHOOSE e \in DOMAIN Escapes : Escapes[e] = str[i]>>
        ELSE IF str[i] = "CTRL" THEN <<"\\", "u", "X", "X">> ELSE <<str[i]>>])

When(b, s) == IF b THEN s ELSE << >>
indent(level, flags) == When(flags.pretty, [i \in 1 .. 2 * level |-> " "])

\* The members of an array or an object between their brackets.
Bracketed(open, members, close, level, flags) ==
    <<open>> \o When(flags.pretty, <<"\n">>)
    \o FlattenSeq([i \in 1 .. Len(members) |->
           When(i > 1, <<",">> \o When(flags.pretty, <<"\n">>))
           \o When(flags.spaced, <<" ">>) \o indent(level + 1, flags) \o members[i]])
    \o When(flags.pretty, When(members # << >>, <<"\n">>) \o indent(level, flags))
    \o When(flags.spaced, <<" ">>) \o <<close>>

json_object_string_to_json_string(str) == <<"\"">> \o json_escape_str(str) \o <<"\"">>
json_object_boolean_to_json_string(b) == IF b THEN json_true_str ELSE json_false_str

RECURSIVE to_json_string(_, _, _)
json_object_object_to_json_string(fields, level, flags) ==
    Bracketed("{", [i \in 1 .. Len(fields) |->
        json_object_string_to_json_string(fields[i][1]) \o <<":">> \o When(flags.spaced, <<" ">>)
        \o to_json_string(fields[i][2], level + 1, flags)], "}", level, flags)
json_object_array_to_json_string(elements, level, flags) ==
    Bracketed("[", [i \in 1 .. Len(elements) |-> to_json_string(elements[i], level + 1, flags)],
              "]", level, flags)
to_json_string(v, level, flags) ==
    CASE v[1] = "obj" -> json_object_object_to_json_string(v[2], level, flags)
      [] v[1] = "arr" -> json_object_array_to_json_string(v[2], level, flags)
      [] v[1] = "str" -> json_object_string_to_json_string(v[2])
      [] v[1] = "bool" -> json_object_boolean_to_json_string(v[2])
      [] v[1] = "null" -> json_null_str
      [] OTHER -> v[2]     \* the digits of an integer, the text a double was read from

-----------------------------------------------------------------------------
\* What a call returns is what the grammar says of the text so far.
AsGrammarSays ==
    LET r == Document(text, tok.strict)
    IN /\ (result = "success") <=> (r.st = "ok")
       /\ (result = "continue") <=> (r.st = "more")
       /\ result = "success" => value = r.v

\* Wherever calls end outside numbers and surrogate pairs, and whatever a reused tokener
\* read before, a call returns an object exactly when the text so far is a value of the
\* grammar, and that value; it asks for more exactly when the text can still become one.
\* Not claimed where odd says why: a call that ends inside a number forgets where a sign
\* may stand, and one that ends behind a high surrogate forgets that half, although
\* json_tokener.h says that additional bytes continue the parsing;
\* -Infinity is refused after another word or \u escape (st_pos); a string that ends in a
\* comment inside an array gives the value before the comment.
VerdictOfGrammar == result # "running" /\ odd = {} => AsGrammarSays

\* A value that is written, in any layout, and read again, in calls of any length,
\* is the same value.
RoundTrip ==
    /\ input.doc # NULL => result \in {"running", "continue", "success"}
    /\ input.doc # NULL /\ input.script = << >> /\ c = NONE /\ result # "running" =>
           result = "success" /\ value = input.doc
=============================================================================
