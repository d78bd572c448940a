----------------------------- MODULE MCStartup -----------------------------
(* Instances of Startup for TLC. *)
EXTENDS Startup

Set(key, value) == [key |-> key, value |-> value]

TLS(cert, key) ==
  <<Set("ENABLE_HTTPS", "true"), Set("SSL_CERT_PATH", cert), Set("SSL_KEY_PATH", key)>>

\* No file; nothing to read but a comment; TLS with an absolute and a relative
\* path; values that are not taken after values that are; sizes beyond a size_t
\* and a pool that is too large; a pool at its limit on a port of its own.
SomeFiles ==
  {NoFile,
   <<Set("#", "comment")>>,
   TLS("cert", "key") \o <<Set("PORT", 443)>>,
   TLS("cert", "key") \o <<Set("ENABLE_HTTPS", "yes")>>,
   <<Set("PORT", 8081), Set("PORT", 65536), Set("LOG_LEVEL", "debug"),
     Set("LOG_LEVEL", "loud"), Set("CACHE_TTL", -1), Set("THREADPOOL_ENABLED", "false")>>,
   <<Set("LOG_MAX_SIZE", -1), Set("CACHE_MAX_SIZE", 5000), Set("GZIP_MIN_SIZE", -2),
     Set("MAX_THREADS", 65)>>,
   <<Set("MAX_THREADS", 64), Set("PORT", 8080)>> \o TLS("cert", "key")}
=============================================================================
