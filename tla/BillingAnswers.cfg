CONSTANTS
    w1 = w1  w2 = w2  m1 = m1  m2 = m2  m3 = m3  h1 = h1  h2 = h2
    pPro = pPro  pElite = pElite  pNew = pNew
    mail1 = mail1  ph1 = ph1  ph2 = ph2
    None = None
    Whops = {w1}
    Members = {m1, m2, m3}
    OwnerOf <- OneOwner
    Plans = {pPro}
    WHOP_PLAN_MAP <- ProAndNew
    Emails = {mail1, ph1}
    MailsOf <- Mails
    PlaceholderOf <- Placeholders
    Handlers = {h1, h2}
    Window = 2
    MaxEvents = 3
    MaxFaults = 0
SPECIFICATION AnswersSpec
CHECK_DEADLOCK FALSE
PROPERTY EventsAnswered
