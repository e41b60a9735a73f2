---------------------------- MODULE MCMemoryStore ---------------------------
(* Instances of MemoryStore for TLC: praise, green builds and one rule.    *)
EXTENDS MemoryStore

Captured_as(source, tags, valence, intensity, owner_initiated, kind) ==
    [source |-> source, tags |-> tags, valence |-> valence, intensity |-> intensity,
     owner_initiated |-> owner_initiated, alert |-> FALSE, kind |-> kind]

MCMoments == {"well done", "Build passed."}

MCSignal ==
    [summary \in MCMoments \cup {"often praises"} |->
        CASE summary = "well done" ->
                 Captured_as("direct_message", {"message", "praise"}, 65, 55, TRUE, "episodic")
          [] summary = "Build passed." ->
                 Captured_as("build_result", {"build", "pass"}, 50, 55, FALSE, "episodic")
          [] OTHER ->
                 Captured_as("reflection", {"owner", "praise", "preference"}, 55, 55, FALSE, "semantic")]

MCRules == <<[fact |-> "often praises", source |-> "direct_message", tag |-> "praise", threshold |-> 2]>>

NoFilter == [tag |-> None, source |-> None, before |-> None, after |-> None]
MCFilters == {[NoFilter EXCEPT !.tag = "pra"],
              [NoFilter EXCEPT !.source = "direct_message", !.before = 5, !.after = 2]}
MCWithin == {<<"pra", "praise">>}

=============================================================================
