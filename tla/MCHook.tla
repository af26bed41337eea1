------------------------------- MODULE MCHook -------------------------------
(***************************************************************************)
(* The command line and the hook, over every kind of event: commands whose *)
(* mutating call is first, last, quoted or behind a wrapper, and files of  *)
(* every suffix.                                                           *)
(***************************************************************************)
EXTENDS Hook

MCCommands ==
    {<<"gcloud", "list", ";", "sudo", "gcloud", "delete">>,
     <<"gcloud", "--flag", "'", "x", ";", "gcloud", "delete", "'">>,
     <<"dquote", "'", "dquote", ";", "terraform", "create", ";", "'">>,
     <<"curl", "googleapis.com", "-XPOST">>,
     <<"curl", "googleapis.com", "-XTRACE">>,
     <<"gcloud", "'", "text">>}

Event(tool, before, suffix, command) ==
    [tool |-> tool, before |-> before, suffix |-> suffix, command |-> command]
NamedFile(suffix) == Event("edit", FALSE, suffix, <<>>)

MCEvents == {NamedFile(s) : s \in {".json", ".tf", ".md"}}
            \cup {Event("read", FALSE, ".json", <<>>), Event("edit", TRUE, ".json", <<>>),
                  Event("unreadable", FALSE, "none", <<>>)}
            \cup {Event("edit", TRUE, "none", c) : c \in MCCommands}

Call(hook, event, usable, policy, configured, baseline, requirements) ==
    [hook |-> hook, event |-> event, usable |-> usable, policy |-> policy,
     configured |-> configured, baseline |-> baseline, requirements |-> requirements]

MCInvocations ==
    {Call(TRUE, e, TRUE, p, c, "none", q) :
        e \in MCEvents, p \in {"block", "warn"}, c \in BOOLEAN,
        q \in {"none", "document", "estate"}}
    \cup {Call(FALSE, e, TRUE, "off", c, b, q) :
        e \in {NamedFile(".json"), NamedFile(".tf")}, c \in BOOLEAN,
        b \in {"none", "narrower", "unreadable"}, q \in {"unreadable", "document", "estate"}}
    \cup {Call(h, NamedFile(".json"), FALSE, "off", FALSE, "none", "none") : h \in BOOLEAN}
=============================================================================
