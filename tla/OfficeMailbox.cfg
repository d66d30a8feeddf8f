CONSTANTS
  Mails = {m1, m2, letter}
  Inbox = {m1, m2}
  Known = {m1}
  Listeners = {l1, l2}
  Nothing = Nothing
  MailLimit <- LimitMail
  MailTotal = 2
SPECIFICATION FairMailbox
INVARIANTS
  MailboxTypeOK
  AnnouncedOnce
  MailAccounted
PROPERTIES
  LoneMailStored
CHECK_DEADLOCK FALSE
