------------------------- MODULE MCImageCollection -------------------------
(* An instance of ImageManager for TLC: tags of every kind that matters.    *)
EXTENDS ImageManager

Weekly(w) == [Plain EXCEPT !.form = "weekly", !.version = <<24, w, 0, Final>>, !.date = 7 * w]
Recommended == Alias(1, [Plain EXCEPT !.base = 3])
Latest24 == FromStr(2, [Plain EXCEPT !.base = 2])
MCTags == {
    Recommended, Latest24,                                \* recommended, latest
    FromStr(3, Weekly(1)), FromStr(4, Weekly(2)),
    FromStr(5, [Weekly(2) EXCEPT !.arch = 1]),            \* w_2024_2-amd64
    FromStr(6, [Weekly(1) EXCEPT !.exp = 1]),             \* exp_w_2024_1
    FromStr(9, [Weekly(2) EXCEPT !.exp = 1]),             \* exp_w_2024_2
    FromStr(7, [Plain EXCEPT !.exp = 1, !.base = 1]),     \* exp_test
    FromStr(8, [Plain EXCEPT !.form = "release", !.version = <<27, 0, 0, Final>>])}
MCLimits == {[releases |-> 1, weeklies |-> 1, dailies |-> 0, include |-> {1}],
             [releases |-> 0, weeklies |-> 1, dailies |-> 0, include |-> {1, 4}]}
MCPolicies ==
    {[t \in Filtered |-> [NoLimit EXCEPT !.number = 1, !.age = 0]],
     [[t \in Filtered |-> NoLimit] EXCEPT !["weekly"].age = 3, !["weekly"].number = 1,
        !["experimental"].cutoffDate = 10, !["release"].cutoffVersion = <<27, 0, 0, Final>>],
     [t \in Filtered |-> [NoLimit EXCEPT !.cutoffDate = Now]]}
DigestSymmetry == Permutations(Digests)
=============================================================================
