-------------------------- MODULE MCProtectBranch --------------------------
(* Small configurations for TLC: the ways to protect a branch, in `branches:` *)
(* and in the legacy keys, and approval rules of each kind.                   *)
EXTENDS ProtectBranch

CONSTANTS Main, Dev, Ann, Bob

MCBranches == {Main, Dev}

MergeOnly(b) == [Named(b) EXCEPT !.mergeOnly = TRUE]
Protect(b) == [Named(b) EXCEPT !.protect = TRUE]
Push(b, l) == [Named(b) EXCEPT !.push = l]

Approval(name, branches, required, who, multi) ==
  [name |-> name, branches |-> branches, required |-> required, who |-> who, multiOnly |-> multi]

Cfg(entries, code, approvals, set, per) ==
  [entries |-> entries, code |-> code, branches |-> ResolveBranches(entries, code),
   items |-> ApprovalItems(approvals), settings |-> set, per |-> per]

Legacy == [toBranch |-> Main, devBranch |-> Dev, additional |-> <<>>, protectTo |-> TRUE, protectDev |-> TRUE]

MCConfigs ==
  { \* several entries for one branch, and a rule for teams only
    Cfg(<<Push(Dev, Developer), Protect(Main), Protect(Dev)>>, Legacy,
        <<Approval("team", <<Main>>, 1, {Ann}, TRUE)>>, "configured", "group"),
    Cfg(<<Push(Main, NoOne), [Push(Main, Developer) EXCEPT !.merge = Developer], MergeOnly(Main)>>, Unset,
        <<>>, None, "group"),
    \* the legacy keys, an any-approver rule that takes the place of a cleared one
    Cfg(<<>>, Legacy,
        <<Approval("old", <<Main>>, 0, {}, FALSE), Approval("any", <<Main, Dev>>, 1, {}, FALSE)>>, None, "student"),
    \* nobody may push to main; two rules on a branch glabs does not protect
    Cfg(<<MergeOnly(Main), Named(Dev), Named(Unset)>>, Unset,
        <<Approval(Unset, <<Main>>, 2, {Ann, Bob}, FALSE), Approval("dev", <<Dev>>, 1, {Bob}, FALSE),
          Approval("old", <<Dev>>, 1, {}, FALSE)>>, None, "student"),
    \* two rules under one name
    Cfg(<<Protect(Main)>>, Unset,
        <<Approval(Unset, <<Main>>, 1, {Ann}, FALSE), Approval(Unset, <<Main>>, 1, {Bob}, FALSE)>>, None, "student"),
    \* only settings, and nothing at all
    Cfg(<<Named(Dev)>>, Unset, <<>>, "configured", "student"),
    Cfg(<<>>, Unset, <<>>, None, "student") }

MCRuleNames == {<<"team">>, <<"old">>, <<"any", Main>>, <<"any", Dev>>, <<"glabs-approval", Main>>, <<"dev">>,
                <<"lecturer">>}

NoRules == [n \in MCRuleNames |-> None]
Left(n, a, who) == [NoRules EXCEPT ![<<n>>] = [any |-> a, required |-> 1, who |-> who, scope |-> {Main}]]

MCLeftovers == {NoRules, Left("old", TRUE, {}), Left("team", FALSE, {Bob}), Left("lecturer", FALSE, {Ann}),
                \* of another kind than some configuration gives the name
                Left("dev", TRUE, {}), Left("old", FALSE, {Ann})}
=============================================================================
