------------------------------- MODULE BlockList -------------------------------
(***************************************************************************)
(* Who may connect: the static access list and the dynamic block list of   *)
(* acl.c, as accept_cb, report_addr, reset_addr and the 30 s timer of      *)
(* server.c use them, with the firewall chain that mirrors the block list  *)
(* and the shell that executes its commands.  The connections themselves   *)
(* are TcpRelay's; here an address only has a number of them.              *)
(***************************************************************************)
EXTENDS Cache

CONSTANTS
    Addrs,      \* client addresses
    Acl,        \* acl_match_host: 1 black list, -1 white list, 0 neither
    AclMode,    \* "black" or "white" (BLACK_LIST, WHITE_LIST)
    Capacity,   \* of the cache (256)
    MaxTries,   \* MAX_TRIES (64)
    MaxAge,     \* what clear_block_list keeps (3600 s), in ticks
    Firewall,   \* "off", "chain", or "unusable": asked for, but neither
                \* firewalld nor iptables works and mode stays NO_FIREWALL_MODE
    Levels,     \* error levels in use
    MaxConns    \* bound: connections of one address

Weight == [MALFORMED |-> 1, BAD |-> 2, SUSPICIOUS |-> 4, MALICIOUS |-> 8]
Chain == Firewall = "chain"

ASSUME BlockListAssumption ==
    /\ Acl \in [Addrs -> {-1, 0, 1}]
    /\ AclMode \in {"black", "white"}
    /\ Capacity \in Nat \ {0, 1}
    /\ MaxTries \in Nat \ {0}
    /\ MaxAge \in Nat
    /\ Firewall \in {"off", "chain", "unusable"}
    /\ Levels \subseteq DOMAIN Weight
    /\ MaxConns \in Nat

VARIABLES
    list,       \* block_list: address -> count of its errors
    rules,      \* DROP rules in the firewall chain, per address
    shell,      \* shell_stdin: "none", "open", or "closed" but not NULL
    stray,      \* history: what is wrong with a command run_cmd wrote
    conns,      \* open connections per address
    seen,       \* history: ticks since the address was last looked up
    phase       \* "running", "stopped"

vars == <<list, rules, shell, stray, conns, seen, phase>>

\* init_firewall opens the shell whether or not it found a firewall
Init ==
    /\ list = EmptyCache
    /\ rules = [a \in Addrs |-> 0]
    /\ shell = IF Firewall = "off" THEN "none" ELSE "open"
    /\ stray = {}
    /\ conns = [a \in Addrs |-> 0]
    /\ seen = [a \in Addrs |-> MaxAge + 1]
    /\ phase = "running"

Listed(a) == a \in CacheKeys(list)
Blocked(a) == Listed(a) /\ list.item[a].data > MaxTries

Seen(a) == seen' = [seen EXCEPT ![a] = 0]

-----------------------------------------------------------------------------
(* The firewall.  update_block_list adds a rule only in a firewall mode;   *)
(* free_firewall_rule, called for every entry that leaves the cache, always*)
(* runs a command, which without a mode was never formatted.               *)

Rule(n) == IF Chain THEN n ELSE 0

RulesKept(r, S) == r   \* fault
RulesDeleted(r, S) == [a \in Addrs |-> IF a \in S /\ r[a] > 0 THEN r[a] - Rule(1) ELSE r[a]]

Written(S, sh) ==
    IF S = {} \/ sh = "none" THEN {}
    ELSE {w \in {"closed", "unformatted"} :
             IF w = "closed" THEN sh = "closed" ELSE ~Chain}

\* the entries of the addresses in S leave the list
Forget(S) ==
    /\ rules' = RulesDeleted(rules, S)
    /\ stray' = stray \cup Written(S, shell)

-----------------------------------------------------------------------------
(* accept_cb. *)

AclDenies(a) == IF AclMode = "black" THEN Acl[a] = 1 ELSE Acl[a] >= 0

\* check_block_list is asked unless the access list decides
Checked(a) == ~AclDenies(a) /\ Acl[a] # -1

\* A white-listed address is not looked up.  (Neither is one getpeername
\* cannot name; no later call names it either, so it is not counted here.)
AdmitUnchecked(a) ==
    /\ Acl[a] = -1
    /\ conns[a] < MaxConns
    /\ conns' = [conns EXCEPT ![a] = @ + 1]
    /\ UNCHANGED <<list, rules, shell, stray, seen, phase>>

\* the access list denies: the socket is closed and nothing is recorded
Deny(a) == AclDenies(a) /\ UNCHANGED vars

\* check_block_list looks the address up, which makes it the newest
Admit(a) ==
    /\ Checked(a)
    /\ ~Blocked(a)
    /\ conns[a] < MaxConns
    /\ conns' = [conns EXCEPT ![a] = @ + 1]
    /\ list' = Touched(list, a)
    /\ Seen(a)
    /\ UNCHANGED <<rules, shell, stray, phase>>

Refuse(a) ==
    /\ Checked(a)
    /\ Blocked(a)
    /\ list' = Touched(list, a)
    /\ Seen(a)
    /\ UNCHANGED <<rules, shell, stray, conns, phase>>

Close(a) ==
    /\ conns[a] > 0
    /\ conns' = [conns EXCEPT ![a] = @ - 1]
    /\ UNCHANGED <<list, rules, shell, stray, seen, phase>>

-----------------------------------------------------------------------------
(* report_addr and reset_addr.  A connection whose peer getpeername cannot *)
(* name any more changes nothing.                                          *)

\* (*count) += err_level
Counted(ch, a, n) == [ch EXCEPT !.item[a].data = @ + n]

\* update_block_list: a listed address adds the level, until it is blocked
Report(a, level) ==
    /\ conns[a] > 0
    /\ Seen(a)
    /\ IF Listed(a)
       THEN LET hit == Touched(list, a) IN
            /\ list' = IF Blocked(a) THEN hit
                       ELSE Counted(hit, a, Weight[level])
            /\ UNCHANGED <<rules, stray>>
       ELSE LET out == Evicted(list, a, 1, Capacity) IN
            /\ list' = Inserted(list, a, 1, Capacity)
            /\ rules' = [RulesDeleted(rules, out) EXCEPT ![a] = @ + Rule(1)]
            /\ stray' = stray \cup Written(out, shell)
    /\ UNCHANGED <<shell, conns, phase>>

\* remove_from_block_list, once a target accepted the client's connection
ResetAddr(a) ==
    /\ conns[a] > 0
    /\ list' = Dropped(list, {a})
    /\ Forget(CacheKeys(list) \cap {a})
    /\ UNCHANGED <<shell, conns, seen, phase>>

-----------------------------------------------------------------------------
(* Time and the end. *)

\* block_list_clear_cb, every UPDATE_INTERVAL
ClearTimer ==
    /\ list' = Dropped(list, Expired(list, MaxAge))
    /\ Forget(Expired(list, MaxAge))
    /\ UNCHANGED <<shell, conns, seen, phase>>

Tick ==
    /\ list' = Aged(list, MaxAge + 1)
    /\ seen' = [a \in Addrs |-> IF seen[a] <= MaxAge THEN seen[a] + 1 ELSE seen[a]]
    /\ UNCHANGED <<rules, shell, stray, conns, phase>>

\* free_block_list: reset_firewall deletes the chain and closes the shell,
\* and cache_clear then writes the deletion of each rule to that shell
FreeBlockList ==
    LET gone == Expired(list, 0)
        sh   == IF Chain THEN "closed" ELSE shell
    IN
    /\ shell' = sh
    /\ rules' = [a \in Addrs |-> 0]
    /\ stray' = stray \cup Written(gone, sh)
    /\ list' = Dropped(list, gone)
    /\ phase' = "stopped"
    /\ UNCHANGED <<conns, seen>>

Client(a) ==
    \/ AdmitUnchecked(a) \/ Deny(a) \/ Admit(a) \/ Refuse(a)
    \/ Close(a) \/ ResetAddr(a)
    \/ \E level \in Levels : Report(a, level)

Done == phase = "stopped" /\ UNCHANGED vars

Running == (\E a \in Addrs : Client(a)) \/ ClearTimer \/ Tick \/ FreeBlockList

Next == (phase = "running" /\ Running) \/ Done

Spec == Init /\ [][Next]_vars

\* The loop's timers run: time passes and the list is cleared, until the
\* program is stopped.
RunningSpec == Spec /\ WF_vars(phase = "running" /\ Tick)
                    /\ WF_vars(phase = "running" /\ ClearTimer)

-----------------------------------------------------------------------------
(* Properties. *)

Entries == [age : 0..MaxAge + 1, data : Nat \ {0}]

ListTypeOK ==
    /\ CacheKeys(list) \subseteq Addrs
    /\ \A a \in CacheKeys(list) : list.item[a] \in Entries
    /\ list.older \subseteq CacheKeys(list) \X CacheKeys(list)
    /\ Cardinality(CacheKeys(list)) < Capacity

\* The list holds addresses, fewer than its capacity: cache_insert evicts
\* when the limit is reached, not when it is passed.
TypeOK ==
    /\ ListTypeOK
    /\ rules \in [Addrs -> Nat]
    /\ shell \in {"none", "open", "closed"}
    /\ stray \subseteq {"closed", "unformatted"}
    /\ conns \in [Addrs -> 0..MaxConns]
    /\ seen \in [Addrs -> 0..MaxAge + 1]
    /\ phase \in {"running", "stopped"}

Mirror ==
    phase = "running" =>
        \A a \in Addrs : rules[a] = IF Listed(a) THEN Rule(1) ELSE 0

CommandsSound == phase = "running" /\ Chain => shell = "open" /\ stray = {}

\* The chain drops the resets sent to exactly the addresses of the list, each
\* by one rule, whatever leaves the list and why: a reset, the timer or an
\* eviction (update_block_list, free_firewall_rule, cache_insert).  It can,
\* because until the exit each of their commands goes to a shell that reads
\* it, and formatted (run_cmd, set_firewall_rule); at the exit reset_firewall
\* has closed the shell before free_block_list writes to it.
RulesMirrorList == Mirror /\ CommandsSound

\* The list stays in the order of last use, so an eviction takes the address
\* that was seen least recently (cache_lookup's delete and add).
RecencyOrder ==
    \A a, b \in CacheKeys(list) :
        /\ a # b => ((<<a, b>> \in list.older) # (<<b, a>> \in list.older))
        /\ <<a, b>> \in list.older => a # b /\ seen[a] >= seen[b]

\* A blocked address stays blocked until it has been silent for longer than
\* MaxAge, one of its own connections reaches a target, or as many others as
\* the list holds were seen since (check_block_list's lookups refresh it).
UnblockedForCause ==
    [][\A a \in Addrs : Blocked(a) /\ ~Blocked(a)' =>
          \/ conns[a] > 0 /\ list' = Dropped(list, {a})
          \/ seen[a] > MaxAge
          \/ Cardinality({b \in Addrs \ {a} : Listed(b)' /\ seen'[b] <= seen[a]})
                >= Capacity - 1
          \/ phase' = "stopped"
      ]_vars

\* An address that stays away for longer than MaxAge is forgotten, and its
\* firewall rule with it (block_list_clear_cb).
Forgotten ==
    \A a \in Addrs :
        (Listed(a) /\ seen[a] > MaxAge)
            ~> ((~Listed(a) /\ rules[a] = 0) \/ seen[a] <= MaxAge)
=============================================================================
