----------------------------- MODULE Integrate -----------------------------
(***************************************************************************)
(* `writ integrate <agent>' (crates/writ-cli/src/integrate.rs): a          *)
(* read-merge-write of the agent's own project configuration, which other  *)
(* writ processes and the user change at the same time.  A configuration   *)
(* is, for every hook event, a sequence of handlers (Cursor, Windsurf) or  *)
(* of matcher groups of handlers (Claude Code, Gemini, Codex); the rest of *)
(* the file is the set of the user's edits it contains.                    *)
(***************************************************************************)
EXTENDS Naturals, Sequences, SequencesExt, FiniteSets

CONSTANTS
    Writs,       \* runs of `writ integrate'
    Argv,        \* run -> the options it is called with
    OnWindows,   \* cfg!(windows)
    HookEvents,  \* the hook events of the agent
    Edits,       \* edits by the user
    Targets,     \* agents considered
    StartTexts(_) \* what the agent's configuration files may hold at first

GroupedTargets == {"claude-code", "gemini", "codex"}
FlatTargets == {"cursor", "windsurf"}
ConfigPaths == {"current", "legacy"}

(* One invocation.  `named': the binary is called writ; `mentions': the    *)
(* policy or the ledger has writ in its path; `bare': no path needs        *)
(* quoting under cmd.exe and PowerShell.                                   *)
ArgvType ==
    [named : BOOLEAN, mentions : BOOLEAN, bare : BOOLEAN, password : BOOLEAN,
     policyLoads : BOOLEAN, print : BOOLEAN]

(* What a reader finds at a path: nothing, white space, a configuration,   *)
(* a text that does not parse, or one whose hooks have the wrong shape.    *)
FileText(text) ==
    /\ text = [kind |-> text.kind, rest |-> text.rest, hooks |-> text.hooks]
    /\ text.kind \in {"absent", "blank", "doc", "garbage", "wrong"}

ASSUME IntegrateAssumption ==
    /\ OnWindows \in BOOLEAN
    /\ Argv \in [Writs -> ArgvType] /\ Targets \subseteq GroupedTargets \cup FlatTargets
    /\ \A t \in Targets : \A texts \in StartTexts(t) :
          /\ texts = [path \in ConfigPaths |-> texts[path]]
          /\ \A path \in ConfigPaths : FileText(texts[path])

VARIABLES
    target,   \* the agent, "none" before it is known
    config,   \* path -> text of the file
    scratch,  \* run -> text of its temporary file
    job,      \* run -> where it stands, its path and what it read
    made      \* edits the user has made, with their path

integrateVars == <<target, config, scratch, job, made>>

Absent == [kind |-> "absent", rest |-> {}, hooks |-> [e \in HookEvents |-> <<>>]]
Torn == [Absent EXCEPT !.kind = "torn"]

IntegrateInit ==
    /\ target = "none" /\ config = [path \in ConfigPaths |-> Absent]
    /\ scratch = [p \in Writs |-> Absent]
    /\ job = [p \in Writs |-> [pc |-> "new", path |-> "current", read |-> Absent]]
    /\ made = {}

\* The project as writ finds it.
Project(t, texts) ==
    /\ target = "none" /\ target' = t /\ config' = texts
    /\ UNCHANGED <<scratch, job, made>>

---------------------------------------------------------------------------
(* Merging *)

(* The handlers of the five fragments.  `ours': a later run recognises it, *)
(* in exec form by the name of the binary, in shell form by the word writ  *)
(* anywhere in the command line.                                           *)
ClaudeHandler(p) == [writ |-> TRUE, ours |-> Argv[p].named, by |-> p]
GeminiHandler(p) == [writ |-> TRUE, ours |-> Argv[p].named \/ Argv[p].mentions, by |-> p]
CodexHandler(p) == [writ |-> TRUE, ours |-> Argv[p].named \/ Argv[p].mentions, by |-> p]
CursorHandler(p) == [writ |-> TRUE, ours |-> Argv[p].named \/ Argv[p].mentions, by |-> p]
WindsurfHandler(p) == [writ |-> TRUE, ours |-> Argv[p].named \/ Argv[p].mentions, by |-> p]

OwnHandler(p) ==
    CASE target = "claude-code" -> ClaudeHandler(p)
      [] target = "gemini" -> GeminiHandler(p)
      [] target = "codex" -> CodexHandler(p)
      [] target = "cursor" -> CursorHandler(p)
      [] OTHER -> WindsurfHandler(p)

IsOurs(h) == h.ours

(* codex_strip_group, and the same step of merge_hook_groups *)
StripGroup(group) == SelectSeq(group, LAMBDA h : ~IsOurs(h))

\* Mutant: a group with a handler of writ goes as a whole.
MutantMergeGroups(groups, p) ==
    Append(SelectSeq(groups, LAMBDA g : StripGroup(g) = g), <<OwnHandler(p)>>)

(* merge_hook_groups: a group is dropped only when it had handlers and     *)
(* none is left.                                                           *)
MergeGroups(groups, p) ==
    LET kept == SelectSeq(groups, LAMBDA g : g = <<>> \/ StripGroup(g) # <<>>)
    IN  Append([i \in DOMAIN kept |-> StripGroup(kept[i])], <<OwnHandler(p)>>)

(* merge_codex_toml: array of tables or inline array alike *)
MergeCodex(groups, p) == MergeGroups(groups, p)

(* merge_flat_hooks *)
MergeFlat(list, p) == Append(SelectSeq(list, LAMBDA h : ~IsOurs(h)), OwnHandler(p))

(* windsurf_path *)
HookPath ==
    IF config["current"].kind = "absent" /\ config["legacy"].kind # "absent"
    THEN "legacy" ELSE "current"

(* portable_command: on Windows it refuses what it would have to quote,    *)
(* elsewhere it quotes.                                                    *)
Portable(p) == OnWindows => Argv[p].bare

(* integrate_*: the file, whether a command for it can be written, and the *)
(* hooks merged into what was read.                                        *)
Merged(p, Merge(_, _)) == [e \in HookEvents |-> Merge(job[p].read.hooks[e], p)]

IntegrateClaudeCode(p) ==
    [path |-> "current", ok |-> TRUE, hooks |-> Merged(p, MergeGroups)]

IntegrateGemini(p) ==
    [path |-> "current", ok |-> TRUE, hooks |-> Merged(p, MergeGroups)]

IntegrateCodex(p) ==
    [path |-> "current", ok |-> Portable(p), hooks |-> Merged(p, MergeCodex)]

IntegrateCursor(p) ==
    [path |-> "current", ok |-> Portable(p), hooks |-> Merged(p, MergeFlat)]

IntegrateWindsurf(p) ==
    [path |-> HookPath, ok |-> TRUE, hooks |-> Merged(p, MergeFlat)]

Integration(p) ==
    CASE target = "claude-code" -> IntegrateClaudeCode(p)
      [] target = "gemini" -> IntegrateGemini(p)
      [] target = "codex" -> IntegrateCodex(p)
      [] target = "cursor" -> IntegrateCursor(p)
      [] OTHER -> IntegrateWindsurf(p)

\* Everything else in the file is kept.
MergedText(p) == [kind |-> "doc", rest |-> job[p].read.rest, hooks |-> Integration(p).hooks]

(* read_json_object_file and the shape checks of the merges: what does not *)
(* parse, or has hooks of the wrong shape, is refused.                     *)
BadText(text) == text.kind \in {"garbage", "wrong", "torn"}

---------------------------------------------------------------------------
(* One run of writ integrate *)

Step(p, pc) == job' = [job EXCEPT ![p].pc = pc]

(* integrate: the checks before the file is looked at, then the path. *)
Validate(p) ==
    /\ job[p].pc = "new"
    /\ IF ~Argv[p].password /\ Argv[p].policyLoads /\ Integration(p).ok
       THEN job' = [job EXCEPT ![p].pc = "valid", ![p].path = Integration(p).path]
       ELSE Step(p, "failed")
    /\ UNCHANGED <<config, scratch, made>>

ReadConfig(p) ==
    /\ job[p].pc = "valid"
    /\ IF BadText(config[job[p].path])
       THEN Step(p, "failed")
       ELSE job' = [job EXCEPT ![p].pc = IF Argv[p].print THEN "printed" ELSE "merged",
                               ![p].read = config[job[p].path]]
    /\ UNCHANGED <<config, scratch, made>>

\* Mutant: the file itself is opened and truncated.
MutantTruncate(p) ==
    config' = [config EXCEPT ![job[p].path] = Torn] /\ UNCHANGED scratch

(* write_atomic: the sibling file is opened and truncated... *)
Truncate(p) == scratch' = [scratch EXCEPT ![p] = Torn] /\ UNCHANGED config

(* ... filled, and renamed over the target. *)
WriteStart(p) ==
    job[p].pc = "merged" /\ Step(p, "writing") /\ Truncate(p) /\ UNCHANGED made

WriteEnd(p) ==
    /\ job[p].pc = "writing" /\ Step(p, "written")
    /\ scratch' = [scratch EXCEPT ![p] = MergedText(p)]
    /\ UNCHANGED <<config, made>>

Rename(p) ==
    /\ job[p].pc = "written"
    /\ scratch' = [scratch EXCEPT ![p] = Absent]
    /\ \/ config' = [config EXCEPT ![job[p].path] = scratch[p]] /\ Step(p, "done")
       \/ UNCHANGED config /\ Step(p, "failed")
    /\ UNCHANGED made

\* The disk fills up, or writ is killed; the temporary file stays behind.
Interrupted(p) ==
    /\ job[p].pc \in {"valid", "merged", "writing", "written"} /\ Step(p, "failed")
    /\ UNCHANGED <<config, scratch, made>>

---------------------------------------------------------------------------
(* The user, in an editor or through the agent *)

UserEdits(path, e, broken) ==
    /\ e \notin {m[1] : m \in made}
    /\ made' = made \cup {<<e, path>>}
    /\ config' = [config EXCEPT ![path].rest = @ \cup {e},
                                ![path].kind = IF broken THEN "garbage" ELSE "doc"]
    /\ UNCHANGED <<scratch, job>>

---------------------------------------------------------------------------
IntegrateNext ==
    \/ \E t \in Targets : \E texts \in StartTexts(t) : Project(t, texts)
    \/ /\ target # "none" /\ UNCHANGED target
       /\ \/ \E p \in Writs :
                \/ Validate(p) \/ ReadConfig(p) \/ WriteStart(p) \/ WriteEnd(p) \/ Rename(p)
                \/ Interrupted(p)
          \/ \E path \in ConfigPaths, e \in Edits, broken \in BOOLEAN :
                (path = "legacy" => target = "windsurf") /\ UserEdits(path, e, broken)

IntegrateSpec == IntegrateInit /\ [][IntegrateNext]_integrateVars

---------------------------------------------------------------------------
(* The handlers of an event, in order, whatever the shape. *)
Handlers(text, e) ==
    IF target \in FlatTargets THEN text.hooks[e] ELSE FlattenSeq(text.hooks[e])

(* Every file a reader can see was written as a whole (write_atomic); a    *)
(* file that did not parse when writ read it was not replaced.             *)
IntegrateTypeOK ==
    /\ \A path \in ConfigPaths : FileText(config[path])
    /\ \A p \in Writs : job[p].path \in ConfigPaths /\ ~BadText(job[p].read)

(* An edit of the user is in the file, unless a run that had read the file *)
(* before the edit replaced it afterwards ("every other setting is         *)
(* preserved", integrate.rs).                                              *)
EditsKept ==
    \A m \in made :
       \/ m[1] \in config[m[2]].rest
       \/ \E p \in Writs : job[p].pc = "done" /\ job[p].path = m[2] /\ m[1] \notin job[p].read.rest

(* Hooks that are not writ's survive every run in their order and number,  *)
(* but for those whose command line reads like writ's (merge_hook_groups,  *)
(* merge_flat_hooks, merge_codex_toml).                                    *)
ForeignKept ==
    \A p \in Writs, e \in HookEvents : job[p].pc = "done" =>
       LET others(text) == SelectSeq(Handlers(text, e), LAMBDA h : ~h.writ /\ ~IsOurs(h))
       IN  others(config[job[p].path]) = others(job[p].read)

(* Whatever runs overlap: once a run is through, every event of the file   *)
(* has exactly one handler writ recognises, and it is the same run's for   *)
(* all of them; runs under a name writ does not recognise leave at most    *)
(* one each ("replaced, never duplicated", integrate.rs).                  *)
IntegratedOnce ==
    \A path \in ConfigPaths, e, f \in HookEvents :
       LET own(x) == SelectSeq(Handlers(config[path], x), LAMBDA h : IsOurs(h))
           all(x) == SelectSeq(Handlers(config[path], x), LAMBDA h : h.writ /\ ~IsOurs(h))
       IN  (\E p \in Writs : job[p].pc = "done" /\ job[p].path = path) =>
              /\ Len(own(e)) <= 1 /\ own(e) = own(f)
              /\ Len(all(e)) = Cardinality({all(e)[i].by : i \in DOMAIN all(e)}) /\ all(e) = all(f)
              /\ own(e) \o all(e) # <<>>

(* The hooks are written where Windsurf looks for them: the legacy file    *)
(* only if the current one did not exist, and then the user or another run *)
(* has made it since (windsurf_path).                                      *)
InEffect ==
    \A p \in Writs : job[p].pc = "done" /\ job[p].path = "legacy" =>
       \/ config["current"].kind = "absent"
       \/ \E m \in made : m[2] = "current"
       \/ \E q \in Writs : job[q].pc = "done" /\ job[q].path = "current"

(* Whatever runs, edits and interruptions come between the steps of a run: *)
(* the file is replaced as a whole, the edits of the user stay, and it is  *)
(* the file the agent looks at (integrate.rs).                             *)
ConfigKept == IntegrateTypeOK /\ EditsKept /\ InEffect

(* And its hooks: the foreign ones stay, writ's are there once.            *)
HooksKept == ForeignKept /\ IntegratedOnce
=============================================================================
