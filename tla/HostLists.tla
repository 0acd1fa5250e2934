------------------------------ MODULE HostLists ------------------------------
(***************************************************************************)
(* How the host list of a task is found: the arguments given to one task   *)
(* (parse_arguments, parse_kwargs), what its decorators say, what env says *)
(* (Task.get_hosts_and_effective_roles), and the merging of hosts, roles   *)
(* and exclusions of one of these levels (merge). A call is resolved in    *)
(* one step; the module checks the algorithm against what a host list      *)
(* should be.                                                              *)
(***************************************************************************)
EXTENDS Integers, Sequences, SequencesExt

CONSTANTS
  Raw,        \* host strings as they were given, with or without blanks
  Strip,      \* str.strip(): [Raw -> Raw]
  Role,       \* role names
  Roledefs,   \* env.roledefs: the hosts of the roles that are defined
  Arguments,  \* bound: the sequences of [key, value] given to one task
  HostSeqs,  \* bound: the values of @hosts, env.hosts and env.exclude_hosts
  RoleSeqs,  \* bound: the values of @roles and env.roles
  Abort,      \* SystemExit, as abort() raises it
  None

ASSUME StripAssumption == Strip \in [Raw -> Raw] /\ \A h \in Raw : Strip[Strip[h]] = Strip[h]
ASSUME ListAssumption == HostSeqs \subseteq Seq(Raw) /\ RoleSeqs \subseteq Seq(Role)

VARIABLES
  given,   \* the arguments of the task
  func,    \* the lists the decorators left on the task function
  env,     \* the lists in env, and env.dedupe_hosts
  result   \* what get_hosts_and_effective_roles() returned, Abort, or None

vars == <<given, func, env, result>>

-----------------------------------------------------------------------------

Empty == [hosts |-> <<>>, roles |-> <<>>, exclude_hosts |-> <<>>]

\* Which list a key stands for: host and role give a list of one.
Listed(key) == CASE key \in {"host", "hosts"} -> "hosts"
                 [] key \in {"role", "roles"} -> "roles"
                 [] OTHER -> "exclude_hosts"

\* The loop over key and value: the last word on a list replaces it.
WithArgument(lists, arg) == [lists EXCEPT ![Listed(arg.key)] = arg.value]
WithArgumentStripped(lists, arg) ==
  [lists EXCEPT ![Listed(arg.key)] =
     IF Listed(arg.key) = "roles" THEN arg.value
     ELSE [i \in DOMAIN arg.value |-> Strip[arg.value[i]]]]

\* parse_kwargs(), for the keywords of an execute() call.
ParseKwargs(args) == FoldLeft(WithArgument, Empty, args)

\* parse_arguments(), for a task on the command line; main() hands on all three.
ParseArguments(args) ==
  LET lists == FoldLeft(WithArgumentStripped, Empty, args)
  IN  <<[key |-> "hosts", value |-> lists.hosts], [key |-> "roles", value |-> lists.roles],
        [key |-> "exclude_hosts", value |-> lists.exclude_hosts]>>

\* Hosts, then those of the roles in their order, stripped.
Cleaned(hosts, roles) ==
  LET all == hosts \o FlattenSeq([i \in DOMAIN roles |-> Roledefs[roles[i]]])
  IN  [i \in DOMAIN all |-> Strip[all[i]]]

\* The deduplicating loop of merge(); a slip: exclusions are looked for only in
\* the first place.
DedupedFirst(hosts, exclude) ==
  LET Keep(kept, h) == IF h \in ToSet(kept) \/ (kept = <<>> /\ h \in ToSet(exclude))
                       THEN kept ELSE Append(kept, h)
  IN  FoldLeft(Keep, <<>>, hosts)
Deduped(hosts, exclude) ==
  LET Keep(kept, h) == IF h \in ToSet(kept) \cup ToSet(exclude) THEN kept ELSE Append(kept, h)
  IN  FoldLeft(Keep, <<>>, hosts)

\* abort() if a role is not defined, whatever else is given.
BadRoles(roles) == ~(ToSet(roles) \subseteq DOMAIN Roledefs)

\* merge(): nothing is excluded unless duplicates are removed.
Merge(hosts, roles, exclude) ==
  IF BadRoles(roles) THEN Abort
  ELSE LET cleaned == Cleaned(hosts, roles)
       IN  [hosts |-> IF env.dedupe_hosts THEN Deduped(cleaned, exclude) ELSE cleaned,
            roles |-> roles]

\* Whether a level has a host list of its own.
Gives(lists) == lists.hosts # <<>> \/ lists.roles # <<>>

\* Task.get_hosts_and_effective_roles(): the arguments before the decorators
\* before env; the exclusions of env only with its hosts.
GetHostsAndEffectiveRoles(arg) ==
  CASE Gives(arg) -> Merge(arg.hosts, arg.roles, arg.exclude_hosts)
    [] ~Gives(arg) /\ Gives(func) -> Merge(func.hosts, func.roles, arg.exclude_hosts)
    [] OTHER -> Merge(env.hosts, env.roles, env.exclude_hosts)

-----------------------------------------------------------------------------

Init ==
  /\ given \in Arguments
  /\ func \in [hosts : HostSeqs, roles : RoleSeqs]
  /\ env \in [hosts : HostSeqs, roles : RoleSeqs, exclude_hosts : HostSeqs, dedupe_hosts : BOOLEAN]
  /\ result = None

\* execute() called from a task, and main() for a task of the command line.
Execute ==
  /\ result = None
  /\ result' = GetHostsAndEffectiveRoles(ParseKwargs(given))
  /\ UNCHANGED <<given, func, env>>

FromCommandLine ==
  /\ result = None
  /\ result' = GetHostsAndEffectiveRoles(ParseKwargs(ParseArguments(given)))
  /\ UNCHANGED <<given, func, env>>

Next == Execute \/ FromCommandLine

Spec == Init /\ [][Next]_vars

-----------------------------------------------------------------------------
(* Properties.                                                             *)

\* The last value given for one of the keys, or nothing.
LastGiven(keys) ==
  LET at == {i \in DOMAIN given : given[i].key \in keys}
  IN  IF at = {} THEN <<>> ELSE given[CHOOSE i \in at : \A k \in at : k <= i].value

\* The level the documentation says counts: "per-task, command-line host lists
\* override absolutely everything else", decorators override env, and exclusions
\* are not merged across levels but for per-task ones over decorators.
Level ==
  LET hosts == LastGiven({"host", "hosts"})
      roles == LastGiven({"role", "roles"})
      exclude == LastGiven({"exclude_hosts"})
  IN  CASE hosts \o roles # <<>> -> [hosts |-> hosts, roles |-> roles, exclude_hosts |-> exclude]
        [] hosts \o roles = <<>> /\ func.hosts \o func.roles # <<>> ->
             [hosts |-> func.hosts, roles |-> func.roles, exclude_hosts |-> exclude]
        [] OTHER -> [hosts |-> env.hosts, roles |-> env.roles, exclude_hosts |-> env.exclude_hosts]

Answered == result \notin {None, Abort}

\* Where host h first stands among those of the level.
First(h) == CHOOSE i \in DOMAIN Cleaned(Level.hosts, Level.roles) :
              /\ Cleaned(Level.hosts, Level.roles)[i] = h
              /\ \A k \in 1..(i - 1) : Cleaned(Level.hosts, Level.roles)[k] # h

\* The list has the hosts of the one level that counts, and of no other. With
\* duplicates removed those that are excluded are not in it, and every other stands
\* in it once, in the order in which the hosts were first named; without, every host
\* that is not excluded stands in it as often as it was named, in that order. What
\* becomes of the excluded ones then is left open: they stay, against the
\* documentation.
Excluded == ToSet(Level.exclude_hosts) \cup {Strip[h] : h \in ToSet(Level.exclude_hosts)}
NotExcluded(hosts) == SelectSeq(hosts, LAMBDA h : h \notin Excluded)
RightHosts ==
  Answered =>
    LET all == Cleaned(Level.hosts, Level.roles) IN
    /\ ToSet(result.hosts) \subseteq ToSet(all)
    /\ IF env.dedupe_hosts
       THEN /\ ToSet(all) \ Excluded \subseteq ToSet(result.hosts)
            /\ ToSet(result.hosts) \cap ToSet(Level.exclude_hosts) = {}
            /\ \A i, k \in DOMAIN result.hosts : i < k => First(result.hosts[i]) < First(result.hosts[k])
       ELSE NotExcluded(result.hosts) = NotExcluded(all)

\* An undefined role stops the program if and only if it is in the level that
\* counts; one further down is never looked at.
AbortsForBadRoles ==
  result # None =>
    ((result = Abort) <=> \E i \in DOMAIN Level.roles : Level.roles[i] \notin DOMAIN Roledefs)

\* What the level that counts says, and nothing else, decides.
OneLevelCounts == RightHosts /\ AbortsForBadRoles
=============================================================================
