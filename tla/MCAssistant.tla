---------------------------- MODULE MCAssistant ----------------------------
EXTENDS AgentTurn

CONSTANTS s1, s2, bad, ask, threat, reply, reject, comfort, unclear, unheard, tEmpathy, tBoundary, tPush

MCSkill == {s1, s2, bad}
MCValid == {s1, s2}
MCSettings ==
    {[mode |-> "production", modelConfigured |-> TRUE, lexicalOnly |-> TRUE],
     [mode |-> "production", modelConfigured |-> FALSE, lexicalOnly |-> FALSE],
     [mode |-> "local", modelConfigured |-> TRUE, lexicalOnly |-> FALSE],
     [mode |-> "demo", modelConfigured |-> FALSE, lexicalOnly |-> FALSE]}

MCText == {ask, threat, reply}
MCTokens == [t \in MCText |-> 1]
MCRequests ==
    {[text |-> t, relationship |-> "r", facts |-> <<>>, preferences |-> <<>>, summary |-> 0] :
        t \in {ask, threat}}

MCScene == {reject, comfort, unclear, unheard}
MCPolicyScenes == {reject, comfort, unclear}
MCTopic == {tEmpathy, tBoundary, tPush}

\* All policies of s1 are the same; two policies of s2 contradict each other.
Rules(required, excluded) == [required |-> required, excluded |-> excluded]
MCPoliciesOf ==
    [s \in MCValid |->
        IF s = s1
        THEN [c \in MCPolicyScenes |-> Rules({tBoundary}, {tPush})]
        ELSE [c \in MCPolicyScenes |-> IF c = reject THEN Rules({tBoundary}, {tPush})
                                                     ELSE Rules({tPush}, {})]]

MCPlans ==
    {[scenes |-> scenes, task |-> "reply", action |-> "respond",
      required |-> {tEmpathy}, excluded |-> {}] :
        scenes \in {{unheard}, {comfort, unheard}, {reject, comfort}}}

=============================================================================
