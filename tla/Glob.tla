-------------------------------- MODULE Glob --------------------------------
(***************************************************************************)
(* The patterns of the KEYS command: string_match_len and RedisStore::keys *)
(* (server/redis_store.cpp), and what a pattern means.  A character is its *)
(* code; strings end with a 0, which the matcher may read.  keys passes    *)
(* nocase = 0, so the other case is left out.                              *)
(***************************************************************************)
EXTENDS Integers, Sequences, SequencesExt

Star == 42
Dash == 45
Question == 63
Open == 91
Escape == 92
Close == 93
Not == 94

\* c lies between the characters a and b, whichever comes first.
Between(a, b, c) == (a <= c /\ c <= b) \/ (b <= c /\ c <= a)

At(p, i) == IF i <= Len(p) THEN p[i] ELSE 0

\* The first index from i on that holds no star
SkipStars(p, i) == CHOOSE k \in i..Len(p) + 1 : At(p, k) # Star /\ \A l \in i..k - 1 : p[l] = Star

\* Mutant: stars at the end of a pattern want a character.
Exhausted_NoStars(p, i) == i = Len(p) + 1

\* Where the string ends, stars may be left of the pattern.
Exhausted(p, i) == SkipStars(p, i) = Len(p) + 1

\* The class that is read from index i on: where it ends, and whether it holds c
class(p, from, c) ==
    LET left(i) == Len(p) - i + 1
        read[i \in from..Len(p) + 1, match \in BOOLEAN] ==
            IF At(p, i) = Escape /\ left(i) >= 2 THEN read[i + 2, match \/ p[i + 1] = c]
            ELSE IF At(p, i) = Close THEN [end |-> i, match |-> match]
            ELSE IF left(i) = 0 THEN [end |-> i - 1, match |-> match]
            ELSE IF At(p, i + 1) = Dash /\ left(i) >= 3
                 THEN read[i + 3, match \/ Between(p[i], p[i + 2], c)]
            ELSE read[i + 1, match \/ p[i] = c]
    IN  read[from, FALSE]

string_match_len(p, s) ==
    LET match[i \in 1..Len(p) + 1, j \in 1..Len(s) + 1] ==
            LET next(k) == IF j = Len(s) THEN Exhausted(p, k) ELSE match[k, j + 1]
                stars   == SkipStars(p, i)
                negated == At(p, i + 1) = Not
                cl      == class(p, IF negated THEN i + 2 ELSE i + 1, s[j])
                lit     == IF At(p, i) = Escape /\ i < Len(p) THEN i + 1 ELSE i
            IN  IF i > Len(p) \/ j > Len(s) THEN i > Len(p) /\ j > Len(s)
                ELSE CASE p[i] = Star     -> stars > Len(p) \/ \E k \in j..Len(s) : match[stars, k]
                       [] p[i] = Question -> next(i + 1)
                       [] p[i] = Open     -> cl.match # negated /\ next(cl.end + 1)
                       [] OTHER           -> p[lit] = s[j] /\ next(lit + 1)
    IN  match[1, 1]

\* RedisStore::keys
keys(kv, p) == {k \in DOMAIN kv : string_match_len(p, k)}

-----------------------------------------------------------------------------
(* What a pattern means.  It is a sequence of tokens, written as `Written'. *)

Token(Char) ==
    [kind : {"star", "any"}] \cup [kind : {"char"}, c : Char]
    \cup [kind : {"class"}, negated : BOOLEAN, from : Char, to : Char]

Written(token) ==
    CASE token.kind = "star" -> <<Star>>
      [] token.kind = "any"  -> <<Question>>
      [] token.kind = "char" -> IF token.c \in {Star, Question, Open, Escape} THEN <<Escape, token.c>>
                                ELSE <<token.c>>
      [] token.kind = "class" ->
            <<Open>> \o (IF token.negated THEN <<Not>> ELSE <<>>)
            \o (IF token.from = token.to THEN <<token.from>> ELSE <<token.from, Dash, token.to>>)
            \o <<Close>>

Pattern(tokens) == FlattenSeq([i \in DOMAIN tokens |-> Written(tokens[i])])

\* The characters that a token other than a star stands for
Stands(token, c) ==
    CASE token.kind = "any"   -> TRUE
      [] token.kind = "char"  -> c = token.c
      [] token.kind = "class" ->
            token.negated # (c \in token.from..token.to \cup token.to..token.from)

\* The string can be cut so that every token has its piece.
Matches(tokens, s) ==
    \E cut \in [0..Len(tokens) -> 0..Len(s)] :
        /\ cut[0] = 0 /\ cut[Len(tokens)] = Len(s)
        /\ \A i \in DOMAIN tokens :
              IF tokens[i].kind = "star" THEN cut[i] >= cut[i - 1]
              ELSE cut[i] = cut[i - 1] + 1 /\ Stands(tokens[i], s[cut[i]])
=============================================================================
