----------------------------- MODULE MCCommandGate -----------------------------
(* Client a sends commands of every kind; b has a worker and a tab of its own. *)
EXTENDS CommandGate, TLC

CONSTANTS a, b, d1, d2, a1, a2, b1, w1, w2, k1, k2, r1, r2, t1, t2, m1, m2

MCDispatcher == d1 :> a @@ d2 :> b
MCTerminal   == d1 :> w1 @@ d2 :> w2
MCTask       == d1 :> k1 @@ d2 :> k2
MCRun        == d1 :> r1 @@ d2 :> r2
MCWorktree   == d1 :> t1 @@ d2 :> t2
MCWriter     == m1 :> d1 @@ m2 :> d2
MCTabOwner   == a1 :> a @@ a2 :> a @@ b1 :> b

Spelled(how, cmd, pairs) == [cmd |-> cmd, spelled |-> how, pairs |-> pairs]
Cmd(cmd, pairs) == Spelled("literal", cmd, pairs)
OnEither(cmd, flag, mine, theirs) == {Cmd(cmd, {<<flag, mine>>}), Cmd(cmd, {<<flag, theirs>>})}

MCArgvs ==
  UNION {OnEither("terminal read", "terminal", w1, w2),
         OnEither("terminal close", "terminal", a1, b1),
         OnEither("orchestration worker-read", "dispatch", d1, d2),
         OnEither("orchestration dispatch-show", "task", k1, k2),
         OnEither("orchestration check", "run", r1, r2),
         OnEither("worktree show", "worktree", t1, t2),
         OnEither("worktree remove", "workspace", t1, t2),
         OnEither("orchestration run-use", "id", r1, r2),
         OnEither("orchestration reply", "id", m1, m2),
         OnEither("orchestration send", "to", w1, w2),
         OnEither("file open", "path", t1, t2)}
  \cup {Cmd("terminal read", {<<"terminal", w1>>, <<"terminal", w2>>}),
        Cmd("terminal read", {<<"pane", w2>>, <<"limit", NoValue>>}),
        Cmd("terminal close", {<<"terminal", NoValue>>}),
        Cmd("terminal send", {}),
        Cmd("terminal show", {<<"terminal", d1>>}),
        Cmd("orchestration worker-release", {}),
        Cmd("orchestration worker-list", {}),
        Cmd("orchestration worker-list", {<<"parent-worktree", t1>>}),
        Cmd("orchestration task-list", {<<"run", r1>>}),
        Cmd("orchestration worker-start",
            {<<"task", k1>>, <<"worktree", "new-child">>, <<"agent", "word">>, <<"from", b1>>}),
        Cmd("orchestration worker-start", {<<"task", k1>>, <<"retry-of", d2>>}),
        Cmd("orchestration task-create", {<<"parent", k2>>, <<"from", b1>>}),
        Cmd("orchestration check", {<<"terminal", b1>>, <<"ack", "token">>}),
        Cmd("orchestration check", {<<"peek", NoValue>>, <<"all", NoValue>>}),
        Cmd("orchestration check", {<<"ack", "word">>}),
        Cmd("orchestration send", {<<"to", "@all">>, <<"limit", "word">>}),
        Cmd("orchestration send", {<<"to", "word">>}),
        Cmd("orchestration reply", {<<"id", m1>>, <<"run", r2>>}),
        Cmd("terminal read", {<<"terminal", w1>>, <<"bogus", w2>>}),
        Cmd("worktree show", {<<"worktree", "active">>}),
        Cmd("worktree create", {<<"agent", "word">>, <<"prompt", "word">>}),
        Cmd("worktree create", {<<"parent-worktree", "new-child">>}),
        Cmd("worktree create", {<<"parent-worktree", t1>>}),
        Cmd("browser open", {<<"page", "page_1">>}),
        Cmd("status", {}),
        Spelled("led", "orchestration reply", {<<"id", m1>>, <<"from", b1>>}),
        Spelled("upper", "orchestration reply", {<<"id", m2>>}),
        Spelled("folded", "orchestration reply", {<<"id", m1>>}),
        Spelled("split", "orchestration check", {<<"terminal", a1>>}),
        Spelled("upper", "orchestration check", {<<"run", r1>>, <<"terminal", b1>>}),
        Spelled("led", "orchestration worker-stop", {}),
        Spelled("upper", "worktree show", {<<"worktree", t2>>}),
        Spelled("split", "worktree create", {<<"agent", "word">>, <<"prompt", "word">>}),
        Spelled("upper", "worktree create", {<<"agent", "word">>, <<"prompt", "word">>})}

Started(readOnly, words, cliAdmin, hardening) ==
  [readOnly |-> readOnly, words |-> words, cliAdmin |-> cliAdmin, hardening |-> hardening]

MCSettings == {Started(FALSE, {}, FALSE, "off"),
               Started(FALSE, {"status", "dispatch", "garbage"}, FALSE, "unset"),
               Started(TRUE, {"admin"}, TRUE, "on")}
=============================================================================
