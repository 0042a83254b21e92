---------------------------- MODULE Configuration ----------------------------
(***************************************************************************)
(* The settings of the webhook dispatcher, from the process environment to *)
(* what New works with: server/internal/config reads and validates them,   *)
(* main.go converts them, withDefaults of the dispatcher has the last word.*)
(* Pure operators.  A text is a number (of seconds, for a duration), Empty, *)
(* or Bad where the parser of its key fails; a variable of the environment  *)
(* is a text or Unset, which is not the same, though nothing here tells the *)
(* two apart.  The other settings are texts with a default that is not      *)
(* empty, which validate therefore never refuses.                           *)
(***************************************************************************)
EXTENDS Integers, Sequences

CONSTANTS
    Unset,       \* what the environment has of a variable that it does not have
    Empty, Bad,  \* the text without a character; a text that does not parse
    Uint32Size   \* how many values a uint32 has, 2^32 in the code

(* It holds the defaults of the two thresholds. *)
ASSUME SizeAssumption == Uint32Size \in Nat /\ Uint32Size > 5

Text     == Int \cup {Empty, Bad}
Variable == Text \cup {Unset}

ASSUME UnsetAssumption == Unset \notin Text

Keys == {"WEBHOOK_WORKERS", "WEBHOOK_MAX_ATTEMPTS", "WEBHOOK_CB_FAILURE_THRESHOLD",
         "WEBHOOK_CB_SUCCESS_THRESHOLD", "WEBHOOK_CB_OPEN_DURATION", "WEBHOOK_TIMEOUT"}

(* Mutant: the file overrides the environment. *)
SetAlways(env, line) == [env EXCEPT ![line.key] = line.value]

(* os.Getenv: no text at all is an empty one. *)
Getenv(env, key) == IF env[key] = Unset THEN Empty ELSE env[key]

(* One line of the .env file: it replaces an empty variable, too. *)
SetIfEmpty(env, line) ==
    IF Getenv(env, line.key) = Empty THEN [env EXCEPT ![line.key] = line.value] ELSE env

LoadEnv(env, file) ==
    LET after[n \in 0..Len(file)] ==
            IF n = 0 THEN env ELSE SetIfEmpty(after[n - 1], file[n])
    IN  after[Len(file)]

EnvOrDefaultInt(text, fallback) == IF text \in {Empty, Bad} THEN fallback ELSE text

EnvOrDefaultDuration(text, fallback) ==
    IF text = Empty THEN fallback ELSE IF text = Bad THEN 0 ELSE text

Config(env) ==
    [workers          |-> EnvOrDefaultInt(Getenv(env, "WEBHOOK_WORKERS"), 4),
     maxAttempts      |-> EnvOrDefaultInt(Getenv(env, "WEBHOOK_MAX_ATTEMPTS"), 10),
     failureThreshold |-> EnvOrDefaultInt(Getenv(env, "WEBHOOK_CB_FAILURE_THRESHOLD"), 5),
     successThreshold |-> EnvOrDefaultInt(Getenv(env, "WEBHOOK_CB_SUCCESS_THRESHOLD"), 2),
     openDuration     |-> EnvOrDefaultDuration(Getenv(env, "WEBHOOK_CB_OPEN_DURATION"), 30),
     requestTimeout   |-> EnvOrDefaultDuration(Getenv(env, "WEBHOOK_TIMEOUT"), 10)]

Valid(c) ==
    /\ c.failureThreshold >= 1 /\ c.successThreshold >= 1
    /\ c.openDuration > 0 /\ c.requestTimeout > 0

Uint32(n) == n % Uint32Size

(* The dispatcher.Config that main passes: two fields lose their high bits, *)
(* and two it does not set.                                                 *)
Passed(c) ==
    [workers |-> c.workers, maxAttempts |-> c.maxAttempts, batchSize |-> 0, lease |-> 0,
     failureThreshold |-> Uint32(c.failureThreshold),
     successThreshold |-> Uint32(c.successThreshold),
     openDuration |-> c.openDuration, requestTimeout |-> c.requestTimeout]

OrDefault(n, default) == IF n <= 0 THEN default ELSE n

Defaulted(d) ==
    [workers          |-> OrDefault(d.workers, 4),
     maxAttempts      |-> OrDefault(d.maxAttempts, 10),
     batchSize        |-> OrDefault(d.batchSize, 50),
     lease            |-> OrDefault(d.lease, 60),
     failureThreshold |-> OrDefault(d.failureThreshold, 5),
     successThreshold |-> OrDefault(d.successThreshold, 2),
     openDuration     |-> OrDefault(d.openDuration, 30),
     requestTimeout   |-> OrDefault(d.requestTimeout, 10)]

(* Mutants: validate is trusted with the workers, or with the thresholds. *)
WorkersAsPassed(d)    == [Defaulted(d) EXCEPT !.workers = d.workers]
ThresholdsAsPassed(d) == [Defaulted(d) EXCEPT !.failureThreshold = d.failureThreshold]

WithDefaults(d) == Defaulted(d)
=============================================================================
