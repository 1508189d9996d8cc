----------------------------- MODULE MCProcess -----------------------------
(* Small instance of Process for TLC, with the one script the server has. *)
EXTENDS Process

MCScripts ==
  <<<<"webauthn_credentials", "sessions", "authorization_codes", "access_tokens",
      "idx_access_tokens_active", "idx_sessions_expires">>>>
=============================================================================
