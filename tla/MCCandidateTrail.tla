-------------------------- MODULE MCCandidateTrail --------------------------
(* Three patches, one of them refused, and a task file of every kind.      *)
EXTENDS CandidateTrail

CONSTANTS p, q, bad

HasToken == {<<p, "t">>, <<bad, "t">>}

Task(token, always, validators) ==
    [token |-> token, always |-> always, validators |-> validators]
Check(type, key, value) == [type |-> type, key |-> key, value |-> value]

Files ==
    { <<>>,
      <<Task("t", FALSE, <<>>), Task("u", TRUE, <<>>)>>,
      <<Task("t", FALSE, <<Check("equals", "output", "ok"),
                           Check("contains", "contains_expected_token", "True"),
                           Check("artifact_exists", "patch_len", "")>>)>>,
      <<Task("t", FALSE, <<Check("regex", "output", "ok")>>)>> }

Approval(decision, by, expires) ==
    [decision |-> decision, hash |-> p, by |-> by, expires |-> expires]
ApprovalFiles ==
    {Approval("approve", "human", Never), Approval("approve", "human", 0),
     Approval("approve", "cand_1", Never), Approval("reject", "human", Never)}
=============================================================================
