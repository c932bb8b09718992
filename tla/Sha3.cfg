SPECIFICATION HashSpec
CONSTANTS
    Messages <- MCMessages
    Usernames = {"admin", "root"}
    Passwords <- MCPasswords
    AdminUser = "admin"
    AdminPass <- MCAdminPass
PROPERTIES
    FipsSpec
