------------------------------ MODULE ImageTag ------------------------------
(***************************************************************************)
(* RSPImageTag and RSPImageTagCollection (models/images/_tag.py): how a    *)
(* tag of the registry is classified, ordered, filtered and selected.      *)
(*                                                                         *)
(* Numbers and dates are naturals; strings that are only compared (the     *)
(* base name, the extra part, the architecture, a prerelease) are their    *)
(* rank; an absent value is Absent, below all of them, as None sorts first.*)
(***************************************************************************)
EXTENDS Integers, Sequences, SequencesExt

Absent == -1

\* RSPImageType
Types == {"alias", "release", "weekly", "daily", "candidate", "experimental", "unknown"}

\* A list of each type, in the order of menus.
InMenuOrder(l) ==
    l["alias"] \o l["release"] \o l["weekly"] \o l["daily"] \o l["candidate"]
        \o l["experimental"] \o l["unknown"]

SemanticForms == {"release", "candidate"}

\* A tag of the registry as the regular expressions take it apart: the form
\* that matched after `exp' prefixes, with its version, whose last component
\* is the rank of a prerelease, or Final.
Final == 9
Plain == [form |-> "other", exp |-> 0, version |-> <<>>, date |-> Absent,
          base |-> Absent, cycle |-> Absent, cycleBuild |-> Absent,
          build |-> Absent, arch |-> Absent, extra |-> Absent]

\* from_str: exp_<tag> is <tag> as an experimental build; a date that does not
\* exist (week 99) fails to parse, and the tag is then unknown.
FromStr(name, t) ==
    [name |-> name,
     type |-> IF t.exp > 0 THEN "experimental"
              ELSE IF t.form = "other" THEN "unknown" ELSE t.form,
     version |-> t.version, semantic |-> t.form \in SemanticForms,
     date |-> t.date, base |-> t.base, cycle |-> t.cycle,
     cycleBuild |-> t.cycleBuild, build |-> t.build, arch |-> t.arch,
     extra |-> t.extra]

\* alias: a tag the configuration names as an alias, whatever its form.
Alias(name, t) ==
    [FromStr(name, [Plain EXCEPT !.base = t.base, !.cycle = t.cycle, !.arch = t.arch])
        EXCEPT !.type = "alias"]

-----------------------------------------------------------------------------
(* _compare *)

\* _compare_int, _compare_str: -1, 0 or 1, None first.
Rank(a, b) == IF a = b THEN 0 ELSE IF a < b THEN -1 ELSE 1

\* With none_last.
RankNoneLast(a, b) ==
    IF a # b /\ Absent \in {a, b} THEN Rank(b, a) ELSE Rank(a, b)

\* Equals are told apart by the next rank.
Then(rank, next) == IF rank # 0 THEN rank ELSE next

RankVersion(v, w) ==
    Then(Rank(v[1], w[1]),
    Then(Rank(v[2], w[2]),
    Then(Rank(v[3], w[3]), Rank(v[4], w[4]))))

\* Two tags of one type: by version, or by base name if one has no version;
\* then cycle, cycle build, build, extra, and an architecture before none.
Compare(s, t) ==
    Then(IF s.version = <<>> \/ t.version = <<>> THEN Rank(s.base, t.base)
         ELSE RankVersion(s.version, t.version),
    Then(Rank(s.cycle, t.cycle),
    Then(Rank(s.cycleBuild, t.cycleBuild),
    Then(Rank(s.build, t.build),
    Then(Rank(s.extra, t.extra), RankNoneLast(s.arch, t.arch))))))

Optional == Nat \cup {Absent}

\* The tags of the registry: one without a version has a base name.
RegistryTag ==
    {t \in [name : Nat, type : Types, version : {<<>>} \cup [1..4 -> Nat], semantic : BOOLEAN,
            date : Optional, base : Optional, cycle : Optional, cycleBuild : Optional,
            build : Optional, arch : Optional, extra : Optional] :
        t.version = <<>> <=> t.base # Absent}

-----------------------------------------------------------------------------
(* RSPImageTagCollection: the tags in the order they were added.  A list of *)
(* some of them is the list of their places in that order.                  *)

\* The places that have a rank, from rank 1.
Arranged(rank) ==
    [k \in 1..Cardinality(DOMAIN rank) |-> CHOOSE i \in DOMAIN rank : rank[i] = k]
InOrder(I) == Arranged([j \in I |-> Cardinality({i \in I : i <= j})])

\* The elements of a list that are in a set.
Kept(l, S) ==
    LET places == InOrder({k \in DOMAIN l : l[k] \in S}) IN
    [k \in DOMAIN places |-> l[places[k]]]

FirstOf(l, n) == SubSeq(l, 1, IF n < Len(l) THEN n ELSE Len(l))

\* list.sort(reverse=True): descending, equal elements in their old order.
Before(tags, i, j) ==
    \/ Compare(tags[i], tags[j]) = 1
    \/ Compare(tags[i], tags[j]) = 0 /\ i < j
SortReverse(tags, I) ==
    Arranged([j \in I |-> Cardinality({i \in I : i = j \/ Before(tags, i, j)})])

\* The sorted list of a type.
ByType(tags, type) == SortReverse(tags, {i \in DOMAIN tags : tags[i].type = type})

Generic(t) == t.arch = Absent
Generics(tags) == {i \in DOMAIN tags : Generic(tags[i])}

\* all_tags
AllTags(tags, hideArch) ==
    LET sorted == InMenuOrder([type \in Types |-> ByType(tags, type)]) IN
    IF hideArch THEN Kept(sorted, Generics(tags)) ELSE sorted

\* latest
Latest(tags, type) == FirstOf(ByType(tags, type), 1)

\* tag_for_tag_name: the tag added last under that name, or 0.
Named(tags, name) ==
    LET found == {i \in DOMAIN tags : tags[i].name = name} IN
    IF found = {} THEN 0 ELSE Max(found)

\* _first_tags
FirstTags(tags, type, total, removeArch) ==
    LET l == ByType(tags, type) IN
    FirstOf(IF removeArch THEN Kept(l, Generics(tags)) ELSE l, total)

\* The tags named in `include' that are there, in some order; one may have been
\* chosen already.
Included(tags, include) == SetToSeq({Named(tags, n) : n \in include} \ {0})

\* subset, as the tags the new collection is built from
Subset(tags, limit, include, removeArch) ==
    FirstTags(tags, "release", limit.releases, removeArch)
        \o FirstTags(tags, "weekly", limit.weeklies, removeArch)
        \o FirstTags(tags, "daily", limit.dailies, removeArch)
        \o Included(tags, include)

-----------------------------------------------------------------------------
(* Filter policies (models/images/_filter.py) *)

\* ImageFilter: an absent field does not restrict, and neither do a number and an
\* age of zero.
NoLimit == [number |-> Absent, age |-> Absent, cutoffBuild |-> Absent,
            cutoffDate |-> Absent, cutoffVersion |-> <<>>]

\* for_image_type: aliases and unknown tags have no filter.
Filtered == {"release", "weekly", "daily", "candidate", "experimental"}

\* The tags a filter does not exclude by themselves.
Allows(f, now, t) ==
    LET date == IF f.age \in {0, Absent} THEN f.cutoffDate ELSE Max({now - f.age, f.cutoffDate}) IN
    /\ t.build > 0 => t.build >= f.cutoffBuild
    /\ t.date # Absent => t.date >= date
    /\ t.semantic /\ f.cutoffVersion # <<>> => RankVersion(t.version, f.cutoffVersion) # -1

\* tag_filter: the allowed ones, until `number' have been found.
TagFilter(tags, l, f, now) ==
    LET allowed == Kept(l, {i \in DOMAIN tags : Allows(f, now, tags[i])}) IN
    IF f.number <= 0 THEN allowed ELSE FirstOf(allowed, f.number)

\* The names of the tags in a list.
NamesOf(tags, l) == {tags[l[k]].name : k \in DOMAIN l}

\* _filter_image_list: what the filter accepts, or what it does not.
\* A possible mistake: the inversion forgets the limit on the number.
FilterListEach(tags, type, policy, now, invert, removeArch) ==
    LET l == ByType(tags, type)
        candidates == IF removeArch THEN Kept(l, Generics(tags)) ELSE l
        accepted == IF type \in Filtered THEN TagFilter(tags, candidates, policy[type], now)
                    ELSE candidates
    IN IF ~invert THEN accepted
       ELSE Kept(candidates, {i \in DOMAIN tags :
               type \in Filtered /\ ~Allows(policy[type], now, tags[i])})
FilterList(tags, type, policy, now, invert, removeArch) ==
    LET l == ByType(tags, type)
        candidates == IF removeArch THEN Kept(l, Generics(tags)) ELSE l
        accepted == IF type \in Filtered THEN TagFilter(tags, candidates, policy[type], now)
                    ELSE candidates
    IN IF invert
         THEN Kept(candidates, {i \in DOMAIN tags : tags[i].name \notin NamesOf(tags, accepted)})
       ELSE accepted

\* filter
Filter(tags, policy, now, invert, removeArch) ==
    InMenuOrder([type \in Types |-> FilterList(tags, type, policy, now, invert, removeArch)])
=============================================================================
