\* Two uploads at once, by any route, of documents of up to five words.
SPECIFICATION MCSpec
CONSTANTS
  u1 = u1
  u2 = u2
  a = a
  b = b
  c = c
  pa = pa
  pb = pb
  both = both
  mpa = mpa
  close = close
  plausible = plausible
  odd = odd
  built = built
  obey = obey
  mail = mail
  redacted = redacted
  None = None
  Uploads = {u1, u2}
  Skills = {a, b, c}
  Phrases <- MCPhrases
  Texts <- MCTexts
  Instructions = {obey}
  Verbs = {built}
  Contacts = {mail}
  Redacted = redacted
  Similar <- MCSimilar
  Inside <- MCInside
  Longer = {odd}
  Quotations <- MCQuotations
  Likenesses <- MCLikenesses
  TOP_K = 2
  REACH = 1
  MAX_QUOTES = 2
INVARIANTS ClaimsQuoteTheText NeverForceFit ScanFindsWhatIsNamed SummaryAddsUp
CHECK_DEADLOCK FALSE
