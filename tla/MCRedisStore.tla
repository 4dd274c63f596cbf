---------------------------- MODULE MCRedisStore ----------------------------
\* RedisStore with one key, the string "ab", and the patterns of KEYS
EXTENDS RedisStore, Glob

MCKey == {<<97, 98>>}

\* a, b and a star as characters; all patterns of up to three tokens, as they
\* are written, with the keys they match
Tokens == {t \in Token({97, 98, Star}) :
              /\ t.kind = "char" => t.c # 98
              /\ t.kind = "class" => t.from = 97 /\ t.to # Star}
Patterns == {[text |-> Pattern(t), keys |-> {k \in Key : Matches(t, k)}] : t \in SeqOf(Tokens, 3)}

\* Every request has been committed and has reached every map, and the leader
\* sends to every node.
AtRest ==
    /\ cut = {} /\ Len(log) = MaxRequests /\ used.restarts = MaxRestarts
    /\ \A n \in Node : /\ node[n].applied_index = Len(log) /\ node[n].future = "none"
                       /\ store[n].queue = <<>>

\* KEYS lists exactly the keys that match, for every pattern of up to three
\* tokens, at the end of every behaviour (string_match_len backtracks over the
\* stars and reads ranges in classes).
KeysExact ==
    AtRest => \A p \in Patterns, n \in Node :
                  keys(store[n].key_values, p.text) = p.keys \cap DOMAIN store[n].key_values
=============================================================================
