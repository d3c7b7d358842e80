------------------------------ MODULE ErrorModel ------------------------------
(***************************************************************************)
(* What a failure looks like from outside (core/src/errors.ts,             *)
(* core/src/runtime/normalize-error.ts, the adapters' serializeError).  A  *)
(* message that is the constant of its code is written as that code;       *)
(* "failed" is "The operation failed.".                                    *)
(***************************************************************************)
CONSTANT None

Codes ==
  {"CAPABILITY_NOT_FOUND", "INPUT_INVALID", "UNAUTHENTICATED", "FORBIDDEN",
   "POLICY_DENIED", "POLICY_FAILED", "APPROVAL_REQUIRED", "APPROVAL_PENDING",
   "APPROVAL_REJECTED", "APPROVAL_EXPIRED", "APPROVAL_CONSUMED",
   "APPROVAL_INPUT_MISMATCH", "APPROVAL_SELF_APPROVAL",
   "APPROVAL_UNSERIALIZABLE_INPUT", "APPROVAL_RESUME_MISMATCH", "EXECUTION_FAILED",
   "OUTPUT_INVALID", "TIMEOUT", "CANCELLED", "AUDIT_UNAVAILABLE", "ADAPTER_ERROR",
   "INTERNAL_ERROR"}

\* ERROR_CODE_DEFAULTS: the codes a model does not get to see, and those after
\* which the same request may succeed.
Concealed ==
  {"POLICY_FAILED", "APPROVAL_INPUT_MISMATCH", "APPROVAL_UNSERIALIZABLE_INPUT",
   "APPROVAL_RESUME_MISMATCH", "EXECUTION_FAILED", "OUTPUT_INVALID",
   "AUDIT_UNAVAILABLE", "ADAPTER_ERROR", "INTERNAL_ERROR"}

Transient == {"APPROVAL_PENDING", "TIMEOUT", "AUDIT_UNAVAILABLE"}

\* new CapabilityError({ code })
ErrorOf(code) ==
  [code |-> code,
   message |-> IF code \in Concealed THEN "failed" ELSE code,
   retryable |-> code \in Transient,
   exposeToModel |-> code \notin Concealed,
   details |-> None]

ASSUME NoneIsNoError == \A code \in Codes : ErrorOf(code) # None

\* What a procedure may throw: a CapabilityError, an ORPCError with its code,
\* its message and whether a ValidationError caused it, or anything else.
Thrown ==
  [class : {"CapabilityError"}, code : Codes]
    \cup [class : {"ORPCError"}, code : {"BAD_REQUEST", "INTERNAL_SERVER_ERROR",
                                         "UNAUTHORIZED", "FORBIDDEN", "CONFLICT"},
          invalid : BOOLEAN, message : {None, "declared"}]
    \cup [class : {"Error"}]

Said(error, message) == IF message = None THEN error ELSE [error EXCEPT !.message = message]

NormalizedORPC(thrown) ==
  CASE thrown.code = "BAD_REQUEST" /\ thrown.invalid ->
         [ErrorOf("INPUT_INVALID") EXCEPT !.details = "issues"]
    [] thrown.code = "INTERNAL_SERVER_ERROR" /\ thrown.invalid -> ErrorOf("OUTPUT_INVALID")
    [] thrown.code = "UNAUTHORIZED" -> Said(ErrorOf("UNAUTHENTICATED"), thrown.message)
    [] thrown.code = "FORBIDDEN" -> Said(ErrorOf("FORBIDDEN"), thrown.message)
    [] OTHER -> Said([ErrorOf("EXECUTION_FAILED") EXCEPT !.exposeToModel = TRUE], thrown.message)

\* normalizeExecutionError
Normalized(thrown) ==
  CASE thrown.class = "CapabilityError" -> ErrorOf(thrown.code)
    [] thrown.class = "ORPCError" -> NormalizedORPC(thrown)
    [] thrown.class = "Error" -> ErrorOf("EXECUTION_FAILED")

Generic == [code |-> "INTERNAL_ERROR", message |-> "failed", retryable |-> FALSE, details |-> None]

\* serializeError: the only two shapes a model client can receive.
Serialized(error) ==
  IF ~error.exposeToModel THEN Generic
  ELSE [code |-> error.code, message |-> error.message, retryable |-> error.retryable,
        details |-> IF error.code = "INPUT_INVALID" THEN error.details ELSE None]
=============================================================================
