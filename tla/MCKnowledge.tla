---------------------------- MODULE MCKnowledge ----------------------------
(***************************************************************************)
(* The knowledge tables for TLC: the server with its automatic import, one *)
(* run of the seed script, two providers.  Two files for each of the       *)
(* tables whose rows matter, and edits that break, empty, change and       *)
(* remove them.                                                            *)
(***************************************************************************)
EXTENDS Knowledge

CONSTANTS server, script, turn, x, y

ACase(id, text) == [case |-> id, text |-> text]
ARow(stage, column, number) ==
  [stage |-> stage, cells |-> [Unnumbered EXCEPT ![column] = number]]
MCSettings == {[auto |-> TRUE, seed |-> seed] : seed \in BOOLEAN}

MCProviders == <<"siliconflow", "aliyun">>

\* The repository's examples; of its own files the team has sales cases only.
MCFirstFiles ==
  [own |-> [t \in Tables |-> IF t = "sales_cases" THEN <<ACase(1, x)>> ELSE NoFile],
   example |-> [skus |-> <<x>>, sop |-> <<ARow("offer", "ID", 2), ARow("opening", "ID", 1)>>,
                faq |-> <<x>>, safety_rules |-> <<x, y>>, sales_cases |-> <<ACase(1, x)>>]]

MCEdits ==
  {<<"example", "sales_cases", <<ACase(1, y)>>>>,
   <<"example", "sales_cases", <<ACase(1, x), ACase(2, y)>>>>,
   <<"example", "sales_cases", <<>>>>,
   <<"example", "safety_rules", <<>>>>,
   <<"example", "safety_rules", <<y>>>>,
   <<"example", "sop", [i \in 1..3 |-> [stage |-> <<"opening", "handover", "offer">>[i],
                                        cells |-> Unnumbered]]>>,
   <<"example", "sop", <<ARow("opening", "bianhao", 2), ARow("offer", "bianhao", 1)>>>>,
   <<"example", "sop", <<ARow("opening", "sort_order", 1), ARow("offer", "sop_id", 0)>>>>,
   <<"example", "sop", <<ARow("opening", "ID", 1), ARow("opening", "ID", 2)>>>>,
   <<"own", "faq", <<NoText>>>>,
   <<"own", "sales_cases", NoFile>>}

=============================================================================
