-------------------------- MODULE MCGatewaySessions --------------------------
(***************************************************************************)
(* A small instance of GatewaySessions for TLC: a tool that reads, one that *)
(* the policy engine asks for, one that it denies.                         *)
(***************************************************************************)
EXTENDS GatewaySessions

CONSTANTS read, write, drop, s1, anonymous, main, side, safe, spare

MCTools == {read, write, drop}
MCVerdict ==
  [t \in MCTools |-> IF t = write THEN "ask" ELSE IF t = drop THEN "deny" ELSE "allow"]

MCWide == [tools |-> MCTools, open |-> {write}]
MCNarrow == [tools |-> {read}, open |-> {read}]

MCContents == {MCWide, MCNarrow}

\* After a refusal, the safe profile; or by taint, and the spare profile after
\* two calls.
MCRuleLists ==
  { <<LinkingRule(Left, "deny", 0, safe)>>,
    <<LinkingRule("high", Left, 0, safe), LinkingRule(Left, Left, 2, spare)>> }

\* Keeps apart what does not meet: sessions share no signals; a removal races
\* with a binding whatever was called; grants matter to calls, not to rules; a
\* write that failed matters to the next start, and one file goes missing at a
\* time.
MCBound ==
  /\ Cardinality(DOMAIN signals) <= 1
  /\ removing # {} => DOMAIN signals = {} /\ rules = <<>>
  /\ granted # {} => rules = <<>> /\ entries = [p \in {} |-> main]
  /\ torn => DOMAIN signals = {} /\ dispatched = Missing
  /\ dispatched # Missing => rules = <<>> \/ disk.policy = rules
  /\ \E f \in Files : disk.manifests[f] # Missing
=============================================================================
