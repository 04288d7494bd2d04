------------------------------- MODULE Wire -------------------------------
(***************************************************************************)
(* How transform.go puts a batch of records on the wire (OTLP): times as   *)
(* unsigned numbers, attributes converted, the records grouped by resource *)
(* and by scope.                                                           *)
(***************************************************************************)
EXTENDS Integers, Sequences, SequencesExt, FiniteSets

CONSTANT SignBit \* of a time, 2^63: a time is in -SignBit .. SignBit - 1
ASSUME SignBitAssumption == SignBit \in Nat /\ SignBit > 2

Map(Op(_), s) == [i \in DOMAIN s |-> Op(s[i])]
FlatMap(Op(_), s) == FlattenSeq(Map(Op, s))

\* The elements of s that are in S, in order; and each element of s once, where
\* it comes first.
Among(s, S) ==
    LET among[n \in 0..Len(s)] == IF n = 0 THEN <<>>
                                  ELSE IF s[n] \in S THEN Append(among[n - 1], s[n])
                                  ELSE among[n - 1]
    IN  among[Len(s)]
Once(s) ==
    LET firsts == {i \in DOMAIN s : \A j \in 1..(i - 1) : s[j] # s[i]}
    IN  Map(LAMBDA i : s[i], Among([i \in DOMAIN s |-> i], firsts))

-----------------------------------------------------------------------------
(* Times                                                                   *)

ZeroTime == 1 - SignBit

\* Mutant: the wire form of a span's time is the one of metrics.
toUnsignedClamped(t) == IF t < 0 THEN 0 ELSE t

toUnsigned(t) == t % (2 * SignBit)                       \* uint64(t.UnixNano())
fromUnsigned(u) == IF u >= SignBit THEN u - 2 * SignBit ELSE u
timeUnixNano(t) == IF t < 0 THEN 0 ELSE t                \* of metrics only

-----------------------------------------------------------------------------
(* Attributes                                                              *)

Val(k, x, items) == [k |-> k, x |-> x, items |-> items]

scalarToPB == [BOOL |-> "bool", INT64 |-> "int", FLOAT64 |-> "double", STRING |-> "string"]
sliceOf == [BOOLSLICE |-> "BOOL", INT64SLICE |-> "INT64", FLOAT64SLICE |-> "FLOAT64",
            STRINGSLICE |-> "STRING"]
value(v) ==
    IF v.k \in DOMAIN scalarToPB THEN Val(scalarToPB[v.k], v.x, <<>>)
    ELSE IF v.k \in DOMAIN sliceOf
    THEN Val("array", "", Map(LAMBDA e : Val(scalarToPB[sliceOf[v.k]], e.x, <<>>), v.items))
    ELSE Val("string", "INVALID", <<>>)

KeyValues(attrs) == Map(LAMBDA a : [key |-> a.key, val |-> value(a.val)], attrs)

-----------------------------------------------------------------------------
(* Resources and scopes                                                    *)

\* A scope's attributes are not written, though GroupByResource tells scopes
\* apart by them.
InstrumentationScopeToPB(sc) == [name |-> sc.name, version |-> sc.version, attrs |-> <<>>]
ResourceToPB(r) == KeyValues(r.attrs)

\* A batch by resource, then by scope, each in the order of its first record; a
\* group takes its schema from the first. The order of the resources is that of a
\* Go map: any.
GroupByResource(batch, Convert(_)) ==
    LET Of(attrs) == Among(batch, {x \in Range(batch) : x.resource.attrs = attrs})
        In(rs, sc) == Among(rs, {x \in Range(rs) : x.scope = sc})
        Scopes(rs) == Map(LAMBDA sc : [scope |-> InstrumentationScopeToPB(sc), schema |-> sc.schema,
                                       records |-> Map(Convert, In(rs, sc))],
                          Once(Map(LAMBDA x : x.scope, rs)))
    IN Map(LAMBDA attrs : LET rs == Of(attrs)
                          IN [resource |-> ResourceToPB(rs[1].resource),
                              schema |-> rs[1].resource.schema, scopes |-> Scopes(rs)],
           Once(Map(LAMBDA x : x.resource.attrs, batch)))
AnyOrder(s) == {[i \in DOMAIN s |-> s[p[i]]] : p \in Bijection(DOMAIN s, DOMAIN s)}
=============================================================================
