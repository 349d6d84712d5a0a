---------------------------- MODULE MCObjectUri ----------------------------
EXTENDS ObjectUri

\* Any text after any prefix, a repository of Hugging Face, and a page of github.com.
MCStarts ==
  [prefix : Registered, text : {<<"a">>}]
    \cup [prefix : {"hf", "huggingface"},
          text : {<<"datasets", "/", "a", "/">>, <<"other", "/", "a", "/">>}]
    \cup [prefix : {"http"},
          text : {<<"github.com", "/", "a", "/", "a", "/", "blob", "/">>,
                  <<"github.com", ":", "a", "/", "a", "/", "blob", "/">>}]
=============================================================================
