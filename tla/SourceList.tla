------------------------------- MODULE SourceList -------------------------------
(***************************************************************************)
(* How the list of media sources is written to the configuration file and  *)
(* read back (src/dlna_utils.cpp, src/config.cpp).  Pure.  Here every      *)
(* character counts, so texts are sequences of characters; "x" stands for  *)
(* all that have no meaning.                                               *)
(***************************************************************************)
LOCAL INSTANCE Naturals
LOCAL INSTANCE Sequences
LOCAL INSTANCE SequencesExt

LOCAL Quote == "q"         \* a double quote
LOCAL Comma == ","
LOCAL Pipe  == "|"
LOCAL Blank == "_"         \* a space or a tab
LOCAL Escape == "e"        \* a backslash

\* A quote inside a value is written twice.
Quoted(value) ==
  <<Quote>> \o FlattenSeq([i \in DOMAIN value |-> IF value[i] = Quote THEN <<Quote, Quote>> ELSE <<value[i]>>])
    \o <<Quote>>

BuildQuotedCommaList(values) ==
  FoldLeft(LAMBDA text, v : IF text = <<>> THEN Quoted(v) ELSE text \o <<Comma>> \o Quoted(v), <<>>, values)

\* The reader's place in the text: before a field, before one and after blanks, in quotes, after
\* a quote in quotes, in a bare field, after a field, or past a field that no comma follows.
Take(r, c) == [r EXCEPT !.field = Append(@, c)]
Close(r, at) == [fields |-> Append(r.fields, r.field), field |-> <<>>, at |-> at]
Go(r, at) == [r EXCEPT !.at = at]

Char(r, c) ==
  CASE r.at \in {"field", "blank"} ->
         (CASE c = Quote -> Go(r, "quoted") [] c = Comma -> Close(r, "field")
            [] c = Blank -> Go(r, "blank") [] OTHER -> Go(Take(r, c), "bare"))
    [] r.at = "quoted" -> IF c = Quote THEN Go(r, "quote") ELSE Take(r, c)
    [] r.at = "quote" ->
         (CASE c = Quote -> Go(Take(r, c), "quoted") [] c = Comma -> Close(r, "field")
            [] c = Blank -> Close(r, "after") [] OTHER -> Close(r, "end"))
    [] r.at = "bare" -> IF c = Comma THEN Close(r, "field") ELSE Take(r, c)
    [] r.at = "after" -> Go(r, CASE c = Comma -> "field" [] c = Blank -> "after" [] OTHER -> "end")
    [] OTHER -> r                                     \* what follows is not read

ParseQuotedCommaList(text) ==
  LET r == FoldLeft(Char, [fields |-> <<>>, field |-> <<>>, at |-> "field"], text)
  IN IF r.at \in {"field", "after", "end"} THEN r.fields ELSE Close(r, "end").fields

\* Before: values separated by bars, with a backslash before a bar or a backslash in a value
\* (and for line ends, which no value here has).
LegacyChar(r, c) ==
  CASE r.escaping -> [r EXCEPT !.field = Append(@, c), !.escaping = FALSE]
    [] c = Escape -> [r EXCEPT !.escaping = TRUE]
    [] c = Pipe   -> [r EXCEPT !.fields = Append(@, r.field), !.field = <<>>]
    [] OTHER      -> [r EXCEPT !.field = Append(@, c)]
DecodeLegacyPipeDelimitedSources(text) ==
  LET r == FoldLeft(LegacyChar, [fields |-> <<>>, field |-> <<>>, escaping |-> FALSE], text)
  IN Append(r.fields, IF r.escaping THEN Append(r.field, Escape) ELSE r.field)

\* Config::Load: the old form is tried when the new one gives nothing, and empty values are left.
LoadSources(text) ==
  LET parsed == ParseQuotedCommaList(text)
      tokens == IF parsed = <<>> /\ Contains(text, Pipe)
                THEN DecodeLegacyPipeDelimitedSources(text) ELSE parsed
  IN SelectSeq(tokens, LAMBDA t : t # <<>>)

-----------------------------------------------------------------------------
LOCAL Texts(n, S) == UNION {[1..k -> S] : k \in 0..n}
Values(n) == Texts(n, {"x", Quote, Comma, Blank, Pipe})
LegacyText(values) ==
  LET escaped(v) == FlattenSeq([i \in DOMAIN v |-> IF v[i] \in {Pipe, Escape} THEN <<Escape, v[i]>> ELSE <<v[i]>>])
  IN FoldLeft(LAMBDA text, v : text \o <<Pipe>> \o escaped(v), escaped(Head(values)), Tail(values))

\* Sources come back from the configuration file as they were saved, whatever quotes, commas,
\* bars and blanks their paths have; an empty one is dropped.
SourcesSurvive ==
  \A v \in Values(3), w \in Values(2) : \A list \in {<<>>, <<v>>, <<v, w>>} :
    LoadSources(BuildQuotedCommaList(list)) = SelectSeq(list, LAMBDA t : t # <<>>)

\* What the old form's decoder reads is what was written in the old form.
LegacyIsDecoded ==
  \A v, w \in Texts(3, {"x", Pipe, Escape}) \ {<<>>} :
    DecodeLegacyPipeDelimitedSources(LegacyText(<<v, w>>)) = <<v, w>>

\* Violated: it is "used once per config file during Load if the new parser finds nothing"
\* (src/dlna_utils.h:84), but the new parser finds something in every text that is not empty.
LegacyIsUpgraded ==
  \A v, w \in Texts(2, {"x"}) \ {<<>>} : LoadSources(LegacyText(<<v, w>>)) = <<v, w>>

\* The list of sources keeps its values, in the form of today and in that of before.
SourcesAreKept == SourcesSurvive /\ LegacyIsDecoded
=============================================================================
