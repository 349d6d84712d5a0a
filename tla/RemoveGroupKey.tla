--------------------------- MODULE RemoveGroupKey ---------------------------
(***************************************************************************)
(* CreateRemoveGroupKey (opendal_remove_utils.cpp): the string by which    *)
(* GroupOpenDALRemovePaths tells operators apart.  Strings are sequences   *)
(* of characters, characters are numbers: a digit is itself, ':' is Colon. *)
(***************************************************************************)
EXTENDS Naturals, Sequences, SequencesExt

CONSTANTS
  Colon,       \* the character ':'
  Components,  \* strings that occur as schemes, option names and option values
  MaxOptions   \* bound: options of a configuration

ASSUME KeyAssumption ==
  /\ Colon \in Nat \ 0 .. 9
  /\ Components \subseteq Seq(Nat)
  /\ MaxOptions \in Nat

VARIABLE operator  \* the operator whose key is made

Options == Components \X Components

\* The arguments: a scheme, and the entries of the unordered_map in the order its
\* iterator yields them, which is any order; names are unique.
Operators ==
  {[scheme |-> s, entries |-> e] :
     s \in Components,
     e \in {e \in UNION {[1 .. n -> Options] : n \in 0 .. MaxOptions} :
              \A i, j \in DOMAIN e : e[i][1] = e[j][1] => i = j}}

\* std::to_string of a size.
Decimal[n \in Nat] ==
  IF n < 10 THEN <<n>> ELSE Append(Decimal[n \div 10], n % 10)

\* Faulty variant of AppendKeyComponent: components are only separated.
AppendSeparated(key, component) == key \o <<Colon>> \o component

AppendKeyComponent(key, component) ==
  key \o Decimal[Len(component)] \o <<Colon>> \o component

\* operator< of strings, and of pairs of strings.
Before(s, t) ==
  \E k \in 1 .. Len(t) :
    /\ k <= Len(s) + 1
    /\ \A i \in 1 .. k - 1 : s[i] = t[i]
    /\ k <= Len(s) => s[k] < t[k]

EntryBefore(e, f) == Before(e[1], f[1]) \/ (e[1] = f[1] /\ Before(e[2], f[2]))

\* Faulty variant of Sorted: the map's own order is kept.
AsIterated(entries) == {entries}

\* std::sort: what it may make of the entries.
Sorted(entries) ==
  {e \in Bijection(DOMAIN entries, ToSet(entries)) :
     \A i, j \in DOMAIN e : i < j => ~EntryBefore(e[j], e[i])}

\* The key, once the entries are sorted.
CreateRemoveGroupKey(scheme, sorted) ==
  LET key[n \in 0 .. Len(sorted)] ==
        IF n = 0 THEN AppendKeyComponent(<<>>, scheme)
        ELSE AppendKeyComponent(AppendKeyComponent(key[n - 1], sorted[n][1]), sorted[n][2])
  IN key[Len(sorted)]

AnyOperator == operator \in Operators
NextOperator == operator' \in Operators

KeySpec == AnyOperator /\ [][NextOperator]_operator

-----------------------------------------------------------------------------
\* The keys an operator may get.
Keys ==
  [o \in Operators |-> {CreateRemoveGroupKey(o.scheme, e) : e \in Sorted(o.entries)}]

SameOptions(o, p) == ToSet(o.entries) = ToSet(p.entries)

\* Operators with different schemes or options never share a key, though schemes,
\* names and values may themselves hold digits and colons: the paths of two
\* buckets are never given to one operator.
KeyTellsApart ==
  \A p \in Operators :
    Keys[p] \cap Keys[operator] # {} =>
      p.scheme = operator.scheme /\ SameOptions(p, operator)

\* The same scheme and options always give the same one key, in whatever order the
\* hash map lists the options and the sort goes: the paths of one bucket are not
\* split.
KeyIgnoresOrder ==
  \A p \in Operators :
    (p.scheme = operator.scheme /\ SameOptions(p, operator)) =>
      \E key \in Keys[operator] : Keys[operator] = {key} /\ Keys[p] = {key}
=============================================================================
